---- MODULE Spec2Model ----
(***************************************************************************)
(* pyglsl: a Python-to-GLSL source translator.                             *)
(*                                                                         *)
(* The module models the syntax-tree visitor of pyglsl/parse.py, the       *)
(* schema classes of pyglsl/interface.py and pyglsl/types.py and the stage *)
(* assemblers of pyglsl/stage.py.  Python syntax trees are records with a  *)
(* field k naming the node class; GLSL text is a sequence of lines, each a *)
(* string; a raised exception is a result whose err field is not empty.    *)
(***************************************************************************)
EXTENDS Integers, Sequences, FiniteSets, TLC

VARIABLES node, glsl, vpc, inputs, stages

vars == <<node, glsl, vpc, inputs, stages>>

(***************************************************************************)
(* Strings                                                                 *)
(***************************************************************************)
Char(s, i) == SubSeq(s, i, i)

startswith(s, p) == Len(s) >= Len(p) /\ SubSeq(s, 1, Len(p)) = p

Contains(s, c) == \E i \in 1..Len(s) : Char(s, i) = c

UpperChars ==
  {"A", "B", "C", "D", "E", "F", "G", "H", "I", "J", "K", "L", "M",
   "N", "O", "P", "Q", "R", "S", "T", "U", "V", "W", "X", "Y", "Z"}

isupper(c) == c \in UpperChars

lower(c) ==
  CASE c = "A" -> "a" [] c = "B" -> "b" [] c = "C" -> "c" [] c = "D" -> "d"
    [] c = "E" -> "e" [] c = "F" -> "f" [] c = "G" -> "g" [] c = "H" -> "h"
    [] c = "I" -> "i" [] c = "J" -> "j" [] c = "K" -> "k" [] c = "L" -> "l"
    [] c = "M" -> "m" [] c = "N" -> "n" [] c = "O" -> "o" [] c = "P" -> "p"
    [] c = "Q" -> "q" [] c = "R" -> "r" [] c = "S" -> "s" [] c = "T" -> "t"
    [] c = "U" -> "u" [] c = "V" -> "v" [] c = "W" -> "w" [] c = "X" -> "x"
    [] c = "Y" -> "y" [] c = "Z" -> "z" [] OTHER -> c

DigitChars == {"0", "1", "2", "3", "4", "5", "6", "7", "8", "9"}

DigitVal(c) ==
  CASE c = "0" -> 0 [] c = "1" -> 1 [] c = "2" -> 2 [] c = "3" -> 3
    [] c = "4" -> 4 [] c = "5" -> 5 [] c = "6" -> 6 [] c = "7" -> 7
    [] c = "8" -> 8 [] c = "9" -> 9

IsDigits(s) == Len(s) > 0 /\ \A i \in 1..Len(s) : Char(s, i) \in DigitChars

RECURSIVE ParseInt(_)
ParseInt(s) ==
  IF Len(s) = 0 THEN 0
  ELSE 10 * ParseInt(SubSeq(s, 1, Len(s) - 1)) + DigitVal(Char(s, Len(s)))

RECURSIVE Join(_, _)
Join(sep, strs) ==
  IF Len(strs) = 0 THEN ""
  ELSE IF Len(strs) = 1 THEN strs[1]
  ELSE strs[1] \o sep \o Join(sep, Tail(strs))

(***************************************************************************)
(* pyglsl/constants.py                                                     *)
(***************************************************************************)
GLSL_INDENT == "    "

GLSL_STATEMENT_TERMINATORS == {";", "{", "}"}

GLSL_BUILTIN_TYPES ==
  {"bool", "int", "uint", "float", "double", "vec2", "vec3", "vec4",
   "bvec2", "bvec3", "bvec4", "ivec2", "ivec3", "ivec4", "uvec2", "uvec3",
   "uvec4", "dvec2", "dvec3", "dvec4", "mat2", "mat3", "mat4", "mat2x2",
   "mat2x3", "mat2x4", "mat3x2", "mat3x3", "mat3x4", "mat4x2", "mat4x3",
   "mat4x4", "dmat2", "dmat3", "dmat4", "dmat2x2", "dmat2x3", "dmat2x4",
   "dmat3x2", "dmat3x3", "dmat3x4", "dmat4x2", "dmat4x3", "dmat4x4",
   "sampler1D", "sampler2D", "sampler3D", "samplerCube", "sampler1DShadow",
   "sampler2DShadow", "samplerCubeShadow", "isampler1D", "isampler2D",
   "isampler3D", "isamplerCube", "usampler1D", "usampler2D", "usampler3D",
   "usamplerCube", "sampler2DRect", "sampler2DRectShadow",
   "isampler2DRect", "usampler2DRect", "samplerBuffer", "isamplerBuffer",
   "usamplerBuffer", "sampler1DArray", "sampler2DArray",
   "samplerCubeArray", "sampler1DArrayShadow", "sampler2DArrayShadow",
   "samplerCubeArrayShadow", "isampler1DArray", "isampler2DArray",
   "isamplerCubeArray", "usampler1DArray", "usampler2DArray",
   "usamplerCubeArray", "image1D", "iimage1D", "uimage1D", "image2D",
   "iimage2D", "uimage2D", "image3D", "iimage3D", "uimage3D",
   "image2DRect", "iimage2DRect", "uimage2DRect", "imageCube",
   "iimageCube", "uimageCube", "imageBuffer", "iimageBuffer",
   "uimageBuffer", "image1DArray", "iimage1DArray", "uimage1DArray",
   "image2DArray", "iimage2DArray", "uimage2DArray", "imageCubeArray",
   "iimageCubeArray", "uimageCubeArray"}

GLSL_BUILTIN_RENAMES ==
  [n \in {"gl_position", "gl_fragcolor", "gl_fragcoord", "gl_fragdepth",
          "gl_pointcoord", "gl_pointsize", "gl_vertexid", "gl_instanceid"} |->
     CASE n = "gl_position"   -> "gl_Position"
       [] n = "gl_fragcolor"  -> "gl_FragColor"
       [] n = "gl_fragcoord"  -> "gl_FragCoord"
       [] n = "gl_fragdepth"  -> "gl_FragDepth"
       [] n = "gl_pointcoord" -> "gl_PointCoord"
       [] n = "gl_pointsize"  -> "gl_PointSize"
       [] n = "gl_vertexid"   -> "gl_VertexID"
       [] n = "gl_instanceid" -> "gl_InstanceID"]

(***************************************************************************)
(* Python syntax trees (the ast module's node classes)                     *)
(***************************************************************************)
None == [k |-> "None"]

Name(id) == [k |-> "Name", id |-> id]

\* a literal: t is the Python type of the value, s is str(value), n is
\* int(value) for a number
Constant(t, s, n) == [k |-> "Constant", t |-> t, s |-> s, n |-> n]

IntC(n) == Constant("int", ToString(n), n)

FloatC(s, n) == Constant("float", s, n)

BoolC(b) == Constant("bool", IF b THEN "True" ELSE "False", IF b THEN 1 ELSE 0)

StrC(s) == Constant("str", s, 0)

NoneC == Constant("NoneType", "None", 0)

keyword(arg, value) == [arg |-> arg, value |-> value]

CallKw(func, args, keywords) ==
  [k |-> "Call", func |-> func, args |-> args, keywords |-> keywords]

Call(func, args) == CallKw(func, args, <<>>)

Attribute(value, attr) == [k |-> "Attribute", value |-> value, attr |-> attr]

Subscript(value, slice) == [k |-> "Subscript", value |-> value, slice |-> slice]

UnaryOp(op, operand) == [k |-> "UnaryOp", op |-> op, operand |-> operand]

BinOp(left, op, right) ==
  [k |-> "BinOp", left |-> left, op |-> op, right |-> right]

BoolOp(op, values) == [k |-> "BoolOp", op |-> op, values |-> values]

Compare(left, ops, comparators) ==
  [k |-> "Compare", left |-> left, ops |-> ops, comparators |-> comparators]

List(elts) == [k |-> "List", elts |-> elts]

comprehension(target, iter, ifs) == [target |-> target, iter |-> iter, ifs |-> ifs]

ListComp(elt, generators) ==
  [k |-> "ListComp", elt |-> elt, generators |-> generators]

DictComp(key, value, generators) ==
  [k |-> "DictComp", key |-> key, value |-> value, generators |-> generators]

SetComp(elt, generators) ==
  [k |-> "SetComp", elt |-> elt, generators |-> generators]

GeneratorExp(elt, generators) ==
  [k |-> "GeneratorExp", elt |-> elt, generators |-> generators]

Lambda(body) == [k |-> "Lambda", body |-> body]

With(body) == [k |-> "With", body |-> body]

Try(body) == [k |-> "Try", body |-> body]

Assign(targets, value) == [k |-> "Assign", targets |-> targets, value |-> value]

AugAssign(target, op, value) ==
  [k |-> "AugAssign", target |-> target, op |-> op, value |-> value]

Return(value) == [k |-> "Return", value |-> value]

Expr(value) == [k |-> "Expr", value |-> value]

If(test, body, orelse) ==
  [k |-> "If", test |-> test, body |-> body, orelse |-> orelse]

For(target, iter, body) ==
  [k |-> "For", target |-> target, iter |-> iter, body |-> body]

While(test, body) == [k |-> "While", test |-> test, body |-> body]

Pass == [k |-> "Pass"]

Break == [k |-> "Break"]

Continue == [k |-> "Continue"]

arg(name, annotation) == [arg |-> name, annotation |-> annotation]

FunctionDef(name, args, returns, body) ==
  [k |-> "FunctionDef", name |-> name, args |-> args, returns |-> returns,
   body |-> body]

Module(body) == [k |-> "Module", body |-> body]

(***************************************************************************)
(* pyglsl/parse.py: GlslCode                                               *)
(***************************************************************************)
\* a GlslCode holding the given lines
GlslCode(lines) == [err |-> "", lines |-> lines]

\* a raised exception
Raise(msg) == [err |-> msg, lines |-> <<>>]

Failed(c) == c.err # ""

one(c) ==
  IF Failed(c) THEN c
  ELSE IF Len(c.lines) # 1 THEN Raise("ValueError: expected exactly one line")
  ELSE c

\* a line of the block appended that is terminated in every case
block_line_always_terminated(line) == GLSL_INDENT \o line \o ";"

\* one line of the block appended: indented, and terminated when it is not
block_line(line) ==
  LET l == GLSL_INDENT \o line
  IN IF Char(l, Len(l)) \notin GLSL_STATEMENT_TERMINATORS THEN l \o ";" ELSE l

append_block(code, block) ==
  IF Failed(code) THEN code
  ELSE IF Failed(block) THEN block
  ELSE GlslCode(code.lines \o [i \in 1..Len(block.lines) |-> block_line(block.lines[i])])

\* code(line)
add_line(code, line) ==
  IF Failed(code) THEN code ELSE GlslCode(Append(code.lines, line))

(***************************************************************************)
(* pyglsl/types.py: ArraySpec                                              *)
(***************************************************************************)
\* ArraySpec.from_ast_node: None, or the element type and the length of an
\* annotation ArrayN[type]
ArraySpec_from_ast_node(n) ==
  IF n.k # "Subscript" THEN None
  ELSE IF n.value.k # "Name" THEN None
  ELSE IF ~startswith(n.value.id, "Array") THEN None
  ELSE IF ~IsDigits(SubSeq(n.value.id, 6, Len(n.value.id))) THEN None
  ELSE IF n.slice.k # "Name" THEN None
  ELSE [k |-> "ArraySpec", element_type |-> n.slice.id,
        length |-> ParseInt(SubSeq(n.value.id, 6, Len(n.value.id)))]

(***************************************************************************)
(* pyglsl/parse.py: op_symbol and GlslVisitor                              *)
(***************************************************************************)
OpTable ==
  {"UAdd", "USub", "Not", "Add", "Sub", "Mult", "MatMult", "Div", "Mod",
   "LShift", "RShift", "BitOr", "BitXor", "BitAnd", "And", "Or", "Eq",
   "NotEq", "Lt", "LtE", "Gt", "GtE", "Is", "IsNot"}

op_symbol(op) ==
  CASE op = "UAdd" -> "+" [] op = "USub" -> "-" [] op = "Not" -> "!"
    [] op = "Add" -> "+" [] op = "Sub" -> "-" [] op = "Mult" -> "*"
    [] op = "MatMult" -> "*" [] op = "Div" -> "/" [] op = "Mod" -> "%"
    [] op = "LShift" -> "<<" [] op = "RShift" -> ">>" [] op = "BitOr" -> "|"
    [] op = "BitXor" -> "^" [] op = "BitAnd" -> "&" [] op = "And" -> "&&"
    [] op = "Or" -> "||" [] op = "Eq" -> "==" [] op = "NotEq" -> "!="
    [] op = "Lt" -> "<" [] op = "LtE" -> "<=" [] op = "Gt" -> ">"
    [] op = "GtE" -> ">=" [] op = "Is" -> "==" [] op = "IsNot" -> "!="

RECURSIVE visit(_)

\* [self.visit(n).one() for n in nodes]: the texts, or the first exception
RECURSIVE visit_ones(_)
visit_ones(nodes) ==
  IF Len(nodes) = 0 THEN GlslCode(<<>>)
  ELSE LET h == one(visit(nodes[1]))
       IN IF Failed(h) THEN h
          ELSE LET r == visit_ones(Tail(nodes))
               IN IF Failed(r) THEN r ELSE GlslCode(<<h.lines[1]>> \o r.lines)

\* for child in body: code.append_block(self.visit(child))
RECURSIVE visit_body(_, _)
visit_body(code, body) ==
  IF Failed(code) \/ Len(body) = 0 THEN code
  ELSE visit_body(append_block(code, visit(body[1])), Tail(body))

visit_Module(n) ==
  IF Len(n.body) # 1 THEN Raise("NotImplementedError") ELSE visit(n.body[1])

visit_arg(n) ==
  IF n.annotation = None
  THEN Raise("ValueError: untyped argument: " \o n.arg)
  ELSE LET adecl == ArraySpec_from_ast_node(n.annotation)
       IN IF adecl # None
          THEN GlslCode(<<adecl.element_type \o " " \o n.arg \o "["
                          \o ToString(adecl.length) \o "]">>)
          ELSE LET gtype == one(visit(n.annotation))
               IN IF Failed(gtype) THEN gtype
                  ELSE GlslCode(<<gtype.lines[1] \o " " \o n.arg>>)

RECURSIVE visit_args(_)
visit_args(params) ==
  IF Len(params) = 0 THEN GlslCode(<<>>)
  ELSE LET h == one(visit_arg(params[1]))
       IN IF Failed(h) THEN h
          ELSE LET r == visit_args(Tail(params))
               IN IF Failed(r) THEN r ELSE GlslCode(<<h.lines[1]>> \o r.lines)

visit_FunctionDef(n) ==
  LET return_type == IF n.returns = None THEN GlslCode(<<"void">>)
                     ELSE one(visit(n.returns))
      params == IF Len(n.args) # 0 /\ n.args[1].arg = "self"
                THEN Tail(n.args) ELSE n.args
      ps == visit_args(params)
  IN IF Failed(return_type) THEN return_type
     ELSE IF Failed(ps) THEN ps
     ELSE add_line(
            visit_body(
              GlslCode(<<return_type.lines[1] \o " " \o n.name \o "("
                         \o Join(", ", ps.lines) \o ") {">>),
              n.body),
            "}")

visit_Name(n) == GlslCode(<<n.id>>)

visit_Attribute(n) ==
  LET v == one(visit(n.value))
  IN IF Failed(v) THEN v ELSE GlslCode(<<v.lines[1] \o "." \o n.attr>>)

\* is_var_decl that also requires the call to have exactly one argument
is_var_decl_one_arg(n) ==
  LET target == n.targets[1]
  IN IF ~(target.k = "Name" /\ ~startswith(target.id, "gl_")
          /\ n.value.k = "Call")
     THEN "no"
     ELSE IF n.value.func.k # "Name" THEN "err"
     ELSE LET func_name == n.value.func.id
          IN IF Len(n.value.args) = 1
                /\ (func_name \in GLSL_BUILTIN_TYPES
                    \/ (Len(func_name) > 0 /\ isupper(Char(func_name, 1))))
             THEN "yes" ELSE "no"

\* "yes", "no", or "err" when node.value.func has no id
is_var_decl(n) ==
  LET target == n.targets[1]
  IN IF ~(target.k = "Name" /\ ~startswith(target.id, "gl_")
          /\ n.value.k = "Call")
     THEN "no"
     ELSE IF n.value.func.k # "Name" THEN "err"
     ELSE LET func_name == n.value.func.id
          IN IF func_name \in GLSL_BUILTIN_TYPES
                \/ (Len(func_name) > 0 /\ isupper(Char(func_name, 1)))
             THEN "yes" ELSE "no"

get_array_decl(n) ==
  LET aspec == ArraySpec_from_ast_node(n.value)
  IN IF aspec = None THEN None
     ELSE LET t == one(visit(n.targets[1]))
          IN IF Failed(t) THEN t
             ELSE GlslCode(<<aspec.element_type \o " " \o t.lines[1] \o "["
                             \o ToString(aspec.length) \o "]">>)

make_var_decl(n) ==
  LET t == one(visit(n.targets[1]))
      v == one(visit(n.value))
  IN IF Failed(t) THEN t
     ELSE IF Failed(v) THEN v
     ELSE GlslCode(<<n.value.func.id \o " " \o t.lines[1] \o " = " \o v.lines[1]>>)

\* floor division as Python's // computes it, for either sign of b # 0
FloorDiv(a, b) == IF b > 0 THEN a \div b ELSE (0 - a) \div (0 - b)

\* int(eval(text)) of the rendered text of a range() argument, computed on
\* the tree the text was rendered from: integer and float literals, unary
\* + and -, and + - * of such; anything else (a name, true/false, ...)
\* raises inside the try block
RECURSIVE EvalInt(_)
EvalInt(n) ==
  CASE n.k = "Constant" /\ n.t \in {"int", "float"} -> [ok |-> TRUE, v |-> n.n]
    [] n.k = "UnaryOp" /\ n.op \in {"USub", "UAdd"} ->
         LET x == EvalInt(n.operand)
         IN IF ~x.ok THEN x
            ELSE [ok |-> TRUE, v |-> IF n.op = "USub" THEN 0 - x.v ELSE x.v]
    [] n.k = "BinOp" /\ n.op \in {"Add", "Sub", "Mult"}
         /\ n.left.k = "Constant" /\ n.right.k = "Constant"
         /\ n.left.t = "int" /\ n.right.t = "int" ->
         [ok |-> TRUE,
          v |-> CASE n.op = "Add" -> n.left.n + n.right.n
                  [] n.op = "Sub" -> n.left.n - n.right.n
                  [] n.op = "Mult" -> n.left.n * n.right.n]
    [] OTHER -> [ok |-> FALSE, v |-> 0]

\* the array size computed in the try block: size.ok is FALSE when the
\* block raises
comp_size(args) ==
  LET start_val == IF Len(args) = 1 THEN [ok |-> TRUE, v |-> 0]
                   ELSE EvalInt(args[1])
      end_val == IF Len(args) = 1 THEN EvalInt(args[1]) ELSE EvalInt(args[2])
      step_val == IF Len(args) = 3 THEN EvalInt(args[3])
                  ELSE [ok |-> TRUE, v |-> 1]
  IN IF ~(start_val.ok /\ end_val.ok /\ step_val.ok) THEN [ok |-> FALSE, v |-> 0]
     ELSE IF step_val.v = 1 THEN [ok |-> TRUE, v |-> end_val.v - start_val.v]
     ELSE IF step_val.v = 0 THEN [ok |-> FALSE, v |-> 0]
     ELSE [ok |-> TRUE,
           v |-> FloorDiv(end_val.v - start_val.v + step_val.v - 1, step_val.v)]

\* a loop header that always counts up by one
for_header_unit_step(var, start, end, step) ==
  "for (int " \o var \o " = " \o start \o "; " \o var \o " < " \o end
  \o "; " \o var \o "++) {"

\* the loop header shared by visit_For and _handle_list_comp_assign
for_header(var, start, end, step) ==
  IF step = "1"
  THEN "for (int " \o var \o " = " \o start \o "; " \o var \o " < " \o end
       \o "; " \o var \o "++) {"
  ELSE "for (int " \o var \o " = " \o start \o "; " \o var \o " < " \o end
       \o "; " \o var \o " += " \o step \o ") {"

\* start, end and step texts of a range() call with 1 to 3 arguments
range_args(args) ==
  LET a == visit_ones(args)
  IN IF Failed(a) THEN a
     ELSE IF Len(args) = 1 THEN GlslCode(<<"0", a.lines[1], "1">>)
     ELSE IF Len(args) = 2 THEN GlslCode(<<a.lines[1], a.lines[2], "1">>)
     ELSE GlslCode(a.lines)

handle_list_comp_assign(n) ==
  LET comp == n.value
      target == n.targets[1]
      gen == comp.generators[1]
  IN IF target.k # "Name"
     THEN Raise("ValueError: list comprehensions can only be assigned to simple variables")
     ELSE IF Len(comp.generators) # 1
     THEN Raise("NotImplementedError: List comprehensions with multiple 'for' clauses are not supported")
     ELSE IF ~(gen.iter.k = "Call" /\ gen.iter.func.k = "Name"
               /\ gen.iter.func.id = "range")
     THEN Raise("NotImplementedError: List comprehensions only support 'for x in range(...)' iteration")
     ELSE IF gen.target.k # "Name"
     THEN Raise("NotImplementedError: List comprehension loop variable must be a simple name")
     ELSE IF Len(gen.iter.args) \notin 1..3
     THEN Raise("NotImplementedError: range() requires 1-3 arguments")
     ELSE
       LET loop_var == gen.target.id
           var_name == target.id
           r == range_args(gen.iter.args)
           size == comp_size(gen.iter.args)
           elem_expr == one(visit(comp.elt))
       IN IF Failed(r) THEN r
          ELSE IF ~size.ok
          THEN Raise("NotImplementedError: List comprehension size must be computable at transpile time. Use constant range() arguments.")
          ELSE IF Failed(elem_expr) THEN elem_expr
          ELSE
            LET elem_type == IF Contains(elem_expr.lines[1], ".")
                             THEN "float" ELSE "int"
                decl == elem_type \o " " \o var_name \o "["
                        \o ToString(size.v) \o "]"
                head == GlslCode(<<decl,
                          for_header(loop_var, r.lines[1], r.lines[2], r.lines[3])>>)
                store == var_name \o "[" \o loop_var \o "] = "
                         \o elem_expr.lines[1]
            IN IF Len(gen.ifs) > 0
               THEN LET if_cond == one(visit(gen.ifs[1]))
                    IN IF Failed(if_cond) THEN if_cond
                       ELSE add_line(
                              append_block(
                                append_block(
                                  append_block(head,
                                    GlslCode(<<"if (" \o if_cond.lines[1] \o ") {">>)),
                                  GlslCode(<<"    " \o store>>)),
                                GlslCode(<<"}">>)),
                              "}")
               ELSE add_line(append_block(head, GlslCode(<<store>>)), "}")

\* an array-literal branch that takes the element type from the first
\* element alone
array_literal_assign_first_elem(n) ==
  LET target == n.targets[1]
  IN IF target.k # "Name"
     THEN Raise("ValueError: array literals can only be assigned to simple variables")
     ELSE IF Len(n.value.elts) = 0
     THEN Raise("ValueError: empty array literals are not supported in GLSL")
     ELSE LET elts == visit_ones(n.value.elts)
          IN IF Failed(elts) THEN elts
             ELSE LET elem_type == IF Contains(elts.lines[1], ".")
                                   THEN "float" ELSE "int"
                      array_size == ToString(Len(n.value.elts))
                  IN GlslCode(<<elem_type \o " " \o target.id \o "[" \o array_size
                                \o "] = " \o elem_type \o "[" \o array_size \o "]("
                                \o Join(", ", elts.lines) \o ")">>)

\* the array-literal branch of visit_Assign
array_literal_assign(n) ==
  LET target == n.targets[1]
  IN IF target.k # "Name"
     THEN Raise("ValueError: array literals can only be assigned to simple variables")
     ELSE IF Len(n.value.elts) = 0
     THEN Raise("ValueError: empty array literals are not supported in GLSL")
     ELSE LET elts == visit_ones(n.value.elts)
          IN IF Failed(elts) THEN elts
             ELSE LET elem_type ==
                        IF \E i \in 1..Len(elts.lines) : Contains(elts.lines[i], ".")
                        THEN "float" ELSE "int"
                      array_size == ToString(Len(n.value.elts))
                  IN GlslCode(<<elem_type \o " " \o target.id \o "[" \o array_size
                                \o "] = " \o elem_type \o "[" \o array_size \o "]("
                                \o Join(", ", elts.lines) \o ")">>)

visit_Assign(n, allow_decl) ==
  IF Len(n.targets) # 1
  THEN Raise("ValueError: multiple assignment targets not allowed")
  ELSE IF allow_decl /\ n.value.k = "ListComp" THEN handle_list_comp_assign(n)
  ELSE IF allow_decl /\ n.value.k = "List" THEN array_literal_assign(n)
  ELSE IF allow_decl /\ is_var_decl(n) = "err"
  THEN Raise("AttributeError: object has no attribute 'id'")
  ELSE IF allow_decl /\ is_var_decl(n) = "yes" THEN make_var_decl(n)
  ELSE LET adecl == get_array_decl(n)
       IN IF adecl # None THEN adecl
          ELSE LET t == one(visit(n.targets[1]))
                   v == one(visit(n.value))
               IN IF Failed(t) THEN t
                  ELSE IF Failed(v) THEN v
                  ELSE GlslCode(<<t.lines[1] \o " = " \o v.lines[1]>>)

visit_NoDeclAssign(n) == visit_Assign(n, FALSE)

visit_Constant(n) ==
  CASE n.t = "bool" -> GlslCode(<<IF n.s = "True" THEN "true" ELSE "false">>)
    [] n.t \in {"int", "float"} -> GlslCode(<<n.s>>)
    [] n.t = "str" -> GlslCode(<<>>)
    [] n.t = "NoneType" -> GlslCode(<<"null">>)
    [] OTHER -> Raise("ValueError: Unsupported constant type: " \o n.t)

visit_List(n) ==
  Raise("NotImplementedError: List literals are only supported in array variable declarations.")

visit_Call(n) ==
  LET name == one(visit(n.func))
      args == visit_ones(n.args)
  IN IF Failed(name) THEN name
     ELSE IF Failed(args) THEN args
     ELSE GlslCode(<<name.lines[1] \o "(" \o Join(", ", args.lines) \o ")">>)

visit_Return(n) ==
  LET v == one(visit(n.value))
  IN IF Failed(v) THEN v ELSE GlslCode(<<"return " \o v.lines[1]>>)

visit_Expr(n) == visit(n.value)

visit_UnaryOp(n) ==
  IF n.op \notin OpTable THEN Raise("KeyError: " \o n.op)
  ELSE LET v == one(visit(n.operand))
       IN IF Failed(v) THEN v ELSE GlslCode(<<op_symbol(n.op) \o v.lines[1]>>)

visit_BinOp(n) ==
  LET l == one(visit(n.left))
      r == one(visit(n.right))
  IN IF Failed(l) THEN l
     ELSE IF n.op \notin OpTable THEN Raise("KeyError: " \o n.op)
     ELSE IF Failed(r) THEN r
     ELSE GlslCode(<<"(" \o l.lines[1] \o " " \o op_symbol(n.op) \o " "
                     \o r.lines[1] \o ")">>)

visit_Subscript(n) ==
  LET v == one(visit(n.value))
      s == one(visit(n.slice))
  IN IF Failed(v) THEN v
     ELSE IF Failed(s) THEN s
     ELSE GlslCode(<<v.lines[1] \o "[" \o s.lines[1] \o "]">>)

visit_AugAssign(n) ==
  LET t == one(visit(n.target))
      v == one(visit(n.value))
  IN IF Failed(t) THEN t
     ELSE IF n.op \notin OpTable THEN Raise("KeyError: " \o n.op)
     ELSE IF Failed(v) THEN v
     ELSE GlslCode(<<t.lines[1] \o " " \o op_symbol(n.op) \o "= " \o v.lines[1]>>)

visit_Compare(n) ==
  IF Len(n.ops) # 1 \/ Len(n.comparators) # 1
  THEN Raise("NotImplementedError: only one op/comparator is supported")
  ELSE LET l == one(visit(n.left))
           r == one(visit(n.comparators[1]))
       IN IF Failed(l) THEN l
          ELSE IF n.ops[1] \notin OpTable THEN Raise("KeyError: " \o n.ops[1])
          ELSE IF Failed(r) THEN r
          ELSE GlslCode(<<l.lines[1] \o " " \o op_symbol(n.ops[1]) \o " "
                          \o r.lines[1]>>)

visit_If(n) ==
  LET test == one(visit(n.test))
  IN IF Failed(test) THEN test
     ELSE LET then == visit_body(GlslCode(<<"if (" \o test.lines[1] \o ") {">>),
                                 n.body)
          IN IF Len(n.orelse) # 0
             THEN add_line(visit_body(add_line(then, "} else {"), n.orelse), "}")
             ELSE add_line(then, "}")

visit_For(n) ==
  IF n.target.k # "Name"
  THEN Raise("NotImplementedError: for-loop target must be an ast.Name")
  ELSE IF n.iter.k # "Call"
  THEN Raise("NotImplementedError: only range() for loops are supported")
  ELSE IF n.iter.func.k # "Name"
  THEN Raise("AttributeError: object has no attribute 'id'")
  ELSE IF n.iter.func.id # "range"
  THEN Raise("NotImplementedError: only range() for loops are supported")
  ELSE IF Len(n.iter.args) \notin 1..3
  THEN Raise("NotImplementedError: range() requires 1-3 arguments")
  ELSE LET r == range_args(n.iter.args)
           var == one(visit(n.target))
       IN IF Failed(r) THEN r
          ELSE IF Failed(var) THEN var
          ELSE add_line(
                 visit_body(
                   GlslCode(<<for_header(var.lines[1], r.lines[1], r.lines[2],
                                         r.lines[3])>>),
                   n.body),
                 "}")

visit_While(n) ==
  LET test == one(visit(n.test))
  IN IF Failed(test) THEN test
     ELSE add_line(
            visit_body(GlslCode(<<"while (" \o test.lines[1] \o ") {">>), n.body),
            "}")

\* the exception of GlslVisitor.visit for a node that no method handles
Unsupported(node_type) ==
  Raise("NotImplementedError: Unsupported Python construct '" \o node_type
        \o "' cannot be translated to GLSL.")

\* GlslVisitor.visit: the visit_<class> method of the node's class; a class
\* without one falls to generic_visit, which returns nothing, and that is
\* raised as an unsupported construct. generic_visit visits the fields of
\* the node first: for a BoolOp, the operator node, which no method handles
visit(n) ==
  CASE n.k = "Module" -> visit_Module(n)
    [] n.k = "FunctionDef" -> visit_FunctionDef(n)
    [] n.k = "Pass" -> GlslCode(<<>>)
    [] n.k = "Name" -> visit_Name(n)
    [] n.k = "Attribute" -> visit_Attribute(n)
    [] n.k = "Assign" -> visit_Assign(n, TRUE)
    [] n.k = "NoDeclAssign" -> visit_NoDeclAssign(n)
    [] n.k = "Constant" -> visit_Constant(n)
    [] n.k = "List" -> visit_List(n)
    [] n.k = "Call" -> visit_Call(n)
    [] n.k = "Return" -> visit_Return(n)
    [] n.k = "Expr" -> visit_Expr(n)
    [] n.k = "UnaryOp" -> visit_UnaryOp(n)
    [] n.k = "BinOp" -> visit_BinOp(n)
    [] n.k = "Subscript" -> visit_Subscript(n)
    [] n.k = "AugAssign" -> visit_AugAssign(n)
    [] n.k = "Compare" -> visit_Compare(n)
    [] n.k = "If" -> visit_If(n)
    [] n.k = "For" -> visit_For(n)
    [] n.k = "While" -> visit_While(n)
    [] n.k = "With" ->
         Raise("NotImplementedError: 'with' statements are not supported in GLSL.")
    [] n.k = "Try" ->
         Raise("NotImplementedError: try/except blocks are not supported in GLSL.")
    [] n.k = "Lambda" ->
         Raise("NotImplementedError: Lambda functions are not supported.")
    [] n.k = "ListComp" ->
         Raise("NotImplementedError: List comprehensions must be used in variable assignments.")
    [] n.k = "DictComp" ->
         Raise("NotImplementedError: Dictionary comprehensions are not supported in GLSL.")
    [] n.k = "SetComp" ->
         Raise("NotImplementedError: Set comprehensions are not supported in GLSL.")
    [] n.k = "GeneratorExp" ->
         Raise("NotImplementedError: Generator expressions are not supported in GLSL.")
    [] n.k = "Break" -> GlslCode(<<"break">>)
    [] n.k = "Continue" -> GlslCode(<<"continue">>)
    [] n.k = "None" ->
         Raise("AttributeError: 'NoneType' object has no attribute '_fields'")
    [] n.k = "BoolOp" -> Unsupported(n.op)
    [] OTHER -> Unsupported(n.k)

\* a parse that rewrites every function to the single-exit form, also one
\* with fewer than two return statements
parse_always_flattened(func) ==
  Module(<<[func EXCEPT !.body =
              <<Assign(<<Name("_return_value")>>, Call(Name("float"), <<>>))>>
              \o @ \o <<Return(Name("_return_value"))>>]>>)

\* parse(func): the syntax tree of the function's de-indented source, a
\* Module holding the one definition; nothing else is done to the tree
parse(func) == Module(<<func>>)

(***************************************************************************)
(* pyglsl/interface.py and pyglsl/types.py: schema classes                 *)
(*                                                                         *)
(* A class is its name, the name of its first base class, the statements   *)
(* of its body, and whether its source text is indented (a class defined   *)
(* inside a function).                                                     *)
(***************************************************************************)
Class(name, base, body, indented) ==
  [k |-> "class", name |-> name, base |-> base, body |-> body,
   indented |-> indented]

\* a type hint typing.Sequence[cls] or typing.Iterator[cls]
Generic(origin, elt) == [k |-> "generic", origin |-> origin, elt |-> elt]

\* type(None), the hint that get_type_hints gives for `-> None`
NoneType == Class("NoneType", "object", <<>>, FALSE)

InterfaceBases ==
  {"ShaderInterface", "UniformBlock", "AttributeBlock",
   "FragmentShaderOutputBlock"}

\* what a failed class-attribute lookup raises
NoAttribute(what) ==
  Raise("AttributeError: object has no attribute '" \o what \o "'")

gdecl(parts) ==
  Join(" ", SelectSeq(parts, LAMBDA p : p # "<None>")) \o ";"

location_str(location) == "layout(location=" \o ToString(location) \o ")"

GlslVar(name, gtype, interpolation) ==
  [name |-> name, gtype |-> gtype, interpolation |-> interpolation]

declare(var) == gdecl(<<var.interpolation, var.gtype, var.name>>)

declare_uniform(var) == gdecl(<<"uniform", var.gtype, var.name>>)

declare_attribute(var, location) ==
  gdecl(<<location_str(location), var.interpolation, "in", var.gtype, var.name>>)

declare_output(var, location) ==
  gdecl(<<var.interpolation, location_str(location), "out", var.gtype, var.name>>)

RECURSIVE snake_case_from(_, _)
snake_case_from(string, first) ==
  IF Len(string) = 0 THEN ""
  ELSE LET char == Char(string, 1)
           rest == SubSeq(string, 2, Len(string))
       IN IF char # lower(char)
          THEN (IF first THEN "" ELSE "_") \o lower(char)
               \o snake_case_from(rest, FALSE)
          ELSE char \o snake_case_from(rest, first)

snake_case(string) == snake_case_from(string, TRUE)

\* ShaderInterface.get_vars: the members of the class body in declaration
\* order, as a result whose lines field holds GlslVar records
RECURSIVE get_vars_of(_)
get_vars_of(body) ==
  IF Len(body) = 0 THEN GlslCode(<<>>)
  ELSE LET item == body[1]
           rest == get_vars_of(Tail(body))
       IN IF item.k # "Assign" THEN rest
          ELSE IF item.targets[1].k # "Name" THEN NoAttribute("id")
          ELSE IF startswith(item.targets[1].id, "gl_") THEN rest
          ELSE IF item.value.k # "Call"
          THEN Raise("TypeError: member is not a constructor: " \o item.targets[1].id)
          ELSE IF item.value.func.k # "Name" THEN NoAttribute("id")
          ELSE IF Len(item.value.args) = 1 /\ item.value.args[1].k # "Name"
          THEN NoAttribute("id")
          ELSE IF Failed(rest) THEN rest
          ELSE GlslCode(<<GlslVar(item.targets[1].id, item.value.func.id,
                                  IF Len(item.value.args) = 1
                                  THEN item.value.args[1].id ELSE "<None>")>>
                        \o rest.lines)

get_vars(cls) == get_vars_of(cls.body)

block_name(cls) == cls.name

instance_name(cls) == snake_case(cls.name)

\* the module-level _declare_block generator
declare_block_lines(block_type, name, instance, members, array) ==
  <<block_type \o " " \o name \o " {">>
  \o [i \in 1..Len(members) |-> "    " \o declare(members[i])]
  \o <<"} " \o instance \o (IF array THEN "[]" ELSE "") \o ";">>

\* ShaderInterface._declare_block; array is "<None>" or "True"
ShaderInterface_declare_block(cls, instance, block_type, array) ==
  LET members == get_vars(cls)
  IN IF Failed(members) THEN members
     ELSE IF Len(members.lines) = 0 THEN GlslCode(<<>>)
     ELSE GlslCode(declare_block_lines(block_type, block_name(cls), instance,
                                       members.lines, array # "<None>"))

\* an attribute block whose locations are counted from one
AttributeBlock_declare_input_block_from_one(cls, array) ==
  IF array # "<None>"
  THEN Raise("NotImplementedError: attribute arrays not implemented")
  ELSE LET members == get_vars(cls)
       IN IF Failed(members) THEN members
          ELSE GlslCode([i \in 1..Len(members.lines) |->
                           declare_attribute(members.lines[i], i)])

\* the lines of an attribute block: one located declaration per member
AttributeBlock_declare_input_block(cls, array) ==
  IF array # "<None>"
  THEN Raise("NotImplementedError: attribute arrays not implemented")
  ELSE LET members == get_vars(cls)
       IN IF Failed(members) THEN members
          ELSE GlslCode([i \in 1..Len(members.lines) |->
                           declare_attribute(members.lines[i], i - 1)])

UniformBlock_declare_input_block(cls, array) ==
  IF array # "<None>"
  THEN Raise("NotImplementedError: uniform arrays not implemented")
  ELSE LET members == get_vars(cls)
       IN IF Failed(members) THEN members
          ELSE GlslCode([i \in 1..Len(members.lines) |->
                           declare_uniform(members.lines[i])])

FragmentShaderOutputBlock_declare_output_block(cls, array) ==
  IF array # "<None>"
  THEN Raise("NotImplementedError: fs output arrays not implemented")
  ELSE LET members == get_vars(cls)
       IN IF Failed(members) THEN members
          ELSE GlslCode([i \in 1..Len(members.lines) |->
                           declare_output(members.lines[i], i - 1)])

\* ptype.declare_input_block(instance_name=..., array=...), resolved on the
\* class of the type hint
declare_input_block(ptype, instance, array) ==
  IF ptype.k # "class" \/ ptype.base \notin InterfaceBases
  THEN NoAttribute("declare_input_block")
  ELSE CASE ptype.base = "UniformBlock" ->
              UniformBlock_declare_input_block(ptype, array)
         [] ptype.base = "AttributeBlock" ->
              AttributeBlock_declare_input_block(ptype, array)
         [] OTHER -> ShaderInterface_declare_block(ptype, instance, "in", array)

declare_output_block(ptype, array) ==
  IF ptype.k # "class" \/ ptype.base \notin InterfaceBases
  THEN NoAttribute("declare_output_block")
  ELSE IF ptype.base = "FragmentShaderOutputBlock"
  THEN FragmentShaderOutputBlock_declare_output_block(ptype, array)
  ELSE ShaderInterface_declare_block(ptype, snake_case(instance_name(ptype)),
                                     "out", array)

\* GlslStruct.get_members: the class source is parsed as it stands, so the
\* source of an indented class does not parse and gives no members
RECURSIVE get_members_of(_)
get_members_of(body) ==
  IF Len(body) = 0 THEN <<>>
  ELSE LET item == body[1]
           rest == get_members_of(Tail(body))
       IN IF item.k = "Assign" /\ ~startswith(item.targets[1].id, "_")
             /\ item.value.k = "Call" /\ item.value.func.k = "Name"
          THEN <<[name |-> item.targets[1].id, gtype |-> item.value.func.id]>>
               \o rest
          ELSE rest

get_members(cls) == IF cls.indented THEN <<>> ELSE get_members_of(cls.body)

declare_struct(cls) ==
  LET members == get_members(cls)
  IN <<"struct " \o cls.name \o " {">>
     \o [i \in 1..Len(members) |->
           "    " \o members[i].gtype \o " " \o members[i].name \o ";"]
     \o <<"};">>

(***************************************************************************)
(* pyglsl/stage.py: the tree rewriting passes                              *)
(***************************************************************************)
\* ast.NodeTransformer.generic_visit: the node with F applied to each child
\* node; fields that hold no node are left alone
MapChildren(n, F(_)) ==
  LET Opt(c) == IF c = None THEN c ELSE F(c)
      Each(s) == [i \in 1..Len(s) |-> F(s[i])]
  IN CASE n.k = "Call" ->
            [n EXCEPT !.func = F(@), !.args = Each(@),
                      !.keywords = [i \in 1..Len(@) |->
                                      [@[i] EXCEPT !.value = F(@)]]]
       [] n.k = "Attribute" -> [n EXCEPT !.value = F(@)]
       [] n.k = "Subscript" -> [n EXCEPT !.value = F(@), !.slice = F(@)]
       [] n.k = "UnaryOp" -> [n EXCEPT !.operand = F(@)]
       [] n.k = "BinOp" -> [n EXCEPT !.left = F(@), !.right = F(@)]
       [] n.k = "Compare" -> [n EXCEPT !.left = F(@), !.comparators = Each(@)]
       [] n.k = "List" -> [n EXCEPT !.elts = Each(@)]
       [] n.k = "ListComp" ->
            [n EXCEPT !.elt = F(@),
                      !.generators = [i \in 1..Len(@) |->
                                        [@[i] EXCEPT !.target = F(@), !.iter = F(@),
                                                     !.ifs = Each(@)]]]
       [] n.k \in {"Assign", "NoDeclAssign"} ->
            [n EXCEPT !.targets = Each(@), !.value = F(@)]
       [] n.k = "AugAssign" -> [n EXCEPT !.target = F(@), !.value = F(@)]
       [] n.k \in {"Return", "Yield"} -> [n EXCEPT !.value = Opt(@)]
       [] n.k = "Expr" -> [n EXCEPT !.value = F(@)]
       [] n.k = "If" ->
            [n EXCEPT !.test = F(@), !.body = Each(@), !.orelse = Each(@)]
       [] n.k = "For" ->
            [n EXCEPT !.target = F(@), !.iter = F(@), !.body = Each(@)]
       [] n.k = "While" -> [n EXCEPT !.test = F(@), !.body = Each(@)]
       [] n.k = "FunctionDef" ->
            [n EXCEPT !.args = [i \in 1..Len(@) |->
                                  [@[i] EXCEPT !.annotation = Opt(@)]],
                      !.returns = Opt(@), !.body = Each(@)]
       [] n.k = "Module" -> [n EXCEPT !.body = Each(@)]
       [] OTHER -> n

\* _Renamer(names).visit(node): names maps old identifiers to new ones
RECURSIVE Renamer(_, _)
Renamer(names, n) ==
  CASE n.k = "Name" ->
         IF n.id \in DOMAIN names THEN [n EXCEPT !.id = names[n.id]] ELSE n
    [] n.k = "Attribute" ->
         [n EXCEPT !.value = Renamer(names, @),
                   !.attr = IF @ \in DOMAIN names THEN names[@] ELSE @]
    [] OTHER -> MapChildren(n, LAMBDA c : Renamer(names, c))

\* _Remover(names).visit(node): names is the set of prefixes to strip
RECURSIVE Remover(_, _)
RECURSIVE Remover_visit_Attribute(_, _)
Remover_visit_Attribute(names, n) ==
  IF n.value.k = "Attribute"
  THEN [n EXCEPT !.value = Remover_visit_Attribute(names, @)]
  ELSE IF n.value.k = "Name" /\ n.value.id \in names THEN Name(n.attr)
  ELSE n

Remover(names, n) ==
  IF n.k = "Attribute" THEN Remover_visit_Attribute(names, n)
  ELSE MapChildren(n, LAMBDA c : Remover(names, c))

NoDeclAssign(targets, value) ==
  [k |-> "NoDeclAssign", targets |-> targets, value |-> value]

\* a rewriting of a statement list: the new list, or the exception raised
Stmts(body) == [err |-> "", body |-> body]

StmtsRaise(msg) == [err |-> msg, body |-> <<>>]

\* keyword assignments built as ordinary Assign nodes
kwargs_as_plain_assignments(call_node, parent) ==
  IF call_node.k # "Call" THEN StmtsRaise("TypeError: node must be an ast.Call")
  ELSE IF Len(call_node.args) > 0
  THEN StmtsRaise("ValueError: positional args not allowed")
  ELSE Stmts([i \in 1..Len(call_node.keywords) |->
                LET kw == call_node.keywords[i]
                IN Assign(
                     <<IF startswith(kw.arg, "gl_") THEN Name(kw.arg)
                       ELSE Attribute(parent, kw.arg)>>,
                     kw.value)])

\* list(kwargs_as_assignments(call_node, parent))
kwargs_as_assignments(call_node, parent) ==
  IF call_node.k # "Call" THEN StmtsRaise("TypeError: node must be an ast.Call")
  ELSE IF Len(call_node.args) > 0
  THEN StmtsRaise("ValueError: positional args not allowed")
  ELSE Stmts([i \in 1..Len(call_node.keywords) |->
                LET kw == call_node.keywords[i]
                IN NoDeclAssign(
                     <<IF startswith(kw.arg, "gl_") THEN Name(kw.arg)
                       ELSE Attribute(parent, kw.arg)>>,
                     kw.value)])

\* a parent node that is the bare instance in every stage
output_parent_flat(indexed, interface) == Name(instance_name(interface))

\* the parent node under which a rewritten return stores a field:
\* _RewriteReturn names the instance, the tessellation-control rewriter
\* subscripts it by the invocation index
output_parent(indexed, interface) ==
  IF indexed
  THEN Subscript(Name(instance_name(interface)), Name("gl_InvocationID"))
  ELSE Name(instance_name(interface))

\* _RewriteReturn(interface).visit(node) on a statement list: every Return
\* becomes its keyword assignments; Expr statements are returned as they are
RECURSIVE RewriteReturn(_, _, _)
RewriteReturn(indexed, interface, body) ==
  IF Len(body) = 0 THEN Stmts(<<>>)
  ELSE LET s == body[1]
           here ==
             CASE s.k = "Return" ->
                    IF interface.k # "class" \/ interface.base \notin InterfaceBases
                    THEN StmtsRaise("AttributeError: object has no attribute 'instance_name'")
                    ELSE kwargs_as_assignments(s.value,
                                               output_parent(indexed, interface))
               [] s.k = "If" ->
                    LET b == RewriteReturn(indexed, interface, s.body)
                        o == RewriteReturn(indexed, interface, s.orelse)
                    IN IF b.err # "" THEN b
                       ELSE IF o.err # "" THEN o
                       ELSE Stmts(<<[s EXCEPT !.body = b.body, !.orelse = o.body]>>)
               [] s.k \in {"For", "While", "FunctionDef"} ->
                    LET b == RewriteReturn(indexed, interface, s.body)
                    IN IF b.err # "" THEN b
                       ELSE Stmts(<<[s EXCEPT !.body = b.body]>>)
               [] OTHER -> Stmts(<<s>>)
           rest == RewriteReturn(indexed, interface, Tail(body))
       IN IF here.err # "" THEN here
          ELSE IF rest.err # "" THEN rest
          ELSE Stmts(here.body \o rest.body)

\* what SharedVarExtractor made of a statement list: the statements left
\* (body) and the shared declarations taken out of them (decls), or the
\* exception raised
Extracted(body, decls) == [err |-> "", body |-> body, decls |-> decls]

ExtractRaise(msg) == [err |-> msg, body |-> <<>>, decls |-> <<>>]

\* shared_decls.append(f"shared {type_str} {target.id};")
shared_decl(name, type_str) ==
  IF Failed(type_str) THEN ExtractRaise(type_str.err)
  ELSE Extracted(<<>>, <<"shared " \o type_str.lines[1] \o " " \o name \o ";">>)

\* shared_decls.append(f"shared {elem_type} {target.id}[{size}];")
shared_array_decl(name, elem_type, size) ==
  IF Failed(elem_type) THEN ExtractRaise(elem_type.err)
  ELSE IF Failed(size) THEN ExtractRaise(size.err)
  ELSE Extracted(<<>>, <<"shared " \o elem_type.lines[1] \o " " \o name \o "["
                         \o size.lines[1] \o "];">>)

\* SharedVarExtractor.visit_Assign
SharedVarExtractor_visit_Assign(s) ==
  IF ~(s.value.k = "Call" /\ s.value.func.k = "Name"
       /\ s.value.func.id = "shared")
  THEN Extracted(<<s>>, <<>>)
  ELSE IF Len(s.value.args) # 1
  THEN ExtractRaise("ValueError: shared() requires exactly one type argument")
  ELSE IF s.targets[1].k # "Name"
  THEN ExtractRaise("ValueError: shared variable must be assigned to a name")
  ELSE IF s.value.args[1].k = "Subscript"
  THEN shared_array_decl(s.targets[1].id, one(visit(s.value.args[1].value)),
                         one(visit(s.value.args[1].slice)))
  ELSE shared_decl(s.targets[1].id, one(visit(s.value.args[1])))

\* a compound statement with its body, and its else branch, replaced by
\* what the extractor left of them
extracted_body(s, b) ==
  IF b.err # "" THEN b
  ELSE Extracted(<<[s EXCEPT !.body = b.body]>>, b.decls)

extracted_branches(s, b, o) ==
  IF b.err # "" THEN b
  ELSE IF o.err # "" THEN o
  ELSE Extracted(<<[s EXCEPT !.body = b.body, !.orelse = o.body]>>,
                 b.decls \o o.decls)

extracted_both(here, rest) ==
  IF here.err # "" THEN here
  ELSE IF rest.err # "" THEN rest
  ELSE Extracted(here.body \o rest.body, here.decls \o rest.decls)

\* an extractor that looks at the statements of the function body only,
\* not into the blocks nested in them
SharedVarExtractor_visit_top(s) ==
  IF s.k = "Assign" THEN SharedVarExtractor_visit_Assign(s)
  ELSE Extracted(<<s>>, <<>>)

\* SharedVarExtractor().visit(root) on a statement list: the statements
\* left, and in decls the shared declarations taken out of them
RECURSIVE SharedVarExtractor(_)
SharedVarExtractor_visit(s) ==
  CASE s.k = "Assign" -> SharedVarExtractor_visit_Assign(s)
    [] s.k = "If" ->
         extracted_branches(s, SharedVarExtractor(s.body),
                            SharedVarExtractor(s.orelse))
    [] s.k \in {"For", "While", "FunctionDef"} ->
         extracted_body(s, SharedVarExtractor(s.body))
    [] OTHER -> Extracted(<<s>>, <<>>)

SharedVarExtractor(body) ==
  IF Len(body) = 0 THEN Extracted(<<>>, <<>>)
  ELSE extracted_both(SharedVarExtractor_visit(body[1]),
                      SharedVarExtractor(Tail(body)))

(***************************************************************************)
(* pyglsl/stage.py: the stage classes                                      *)
(*                                                                         *)
(* A function object is its definition (def), its type hints in parameter  *)
(* order (hints) and return hint (ret), the layout attributes set on it by *)
(* the decorators (attrs), and the struct classes among its module's       *)
(* globals (globals).                                                      *)
(***************************************************************************)
\* the characters of identifiers in code point order
Alphabet == "0123456789ABCDEFGHIJKLMNOPQRSTUVWXYZ_abcdefghijklmnopqrstuvwxyz"

Ord(c) == CHOOSE i \in 1..Len(Alphabet) : Char(Alphabet, i) = c

\* a < b as Python orders strings
RECURSIVE StrLess(_, _)
StrLess(a, b) ==
  IF Len(b) = 0 THEN FALSE
  ELSE IF Len(a) = 0 THEN TRUE
  ELSE IF Char(a, 1) = Char(b, 1)
  THEN StrLess(SubSeq(a, 2, Len(a)), SubSeq(b, 2, Len(b)))
  ELSE Ord(Char(a, 1)) < Ord(Char(b, 1))

\* sorted(self.params.items()): the hints ordered by parameter name
RECURSIVE sorted(_)
sorted(items) ==
  IF Len(items) = 0 THEN <<>>
  ELSE LET least == CHOOSE i \in 1..Len(items) :
                      \A j \in 1..Len(items) :
                        j # i => StrLess(items[i].name, items[j].name)
       IN <<items[least]>>
          \o sorted([j \in 1..(Len(items) - 1) |->
                       IF j < least THEN items[j] ELSE items[j + 1]])

\* lines of the output with the group each belongs to
Tag(g, strs) == [i \in 1..Len(strs) |-> [g |-> g, s |-> strs[i]]]

Texts(lines) == [i \in 1..Len(lines) |-> lines[i].s]

IsStruct(v) == v.k = "class" /\ v.base = "GlslStruct"

\* the number of frames collect_struct_definitions walks, its own included
FrameWalkLimit == 10

\* the struct classes named in a list of values that are not yet seen
RECURSIVE unseen_structs(_, _)
unseen_structs(values, seen) ==
  IF Len(values) = 0 THEN <<>>
  ELSE IF IsStruct(values[1]) /\ values[1].name \notin seen
  THEN <<values[1]>> \o unseen_structs(Tail(values), seen \cup {values[1].name})
  ELSE unseen_structs(Tail(values), seen)

RECURSIVE walk_frames(_, _)
walk_frames(frames, seen) ==
  IF Len(frames) = 0 THEN <<>>
  ELSE LET found == unseen_structs(frames[1], seen)
       IN found \o walk_frames(Tail(frames),
                               seen \cup {found[i].name : i \in 1..Len(found)})

\* Stage.collect_struct_definitions: the struct classes of the function's
\* globals, then those among the locals of the frames on the call stack;
\* callers are the frames below compile(), inner lists the locals of each,
\* and own is the number of frames of the stage's own methods on the stack
collect_struct_definitions(func, callers, own) ==
  LET from_globals == SelectSeq(func.globals, IsStruct)
      walked == SubSeq(callers, 1,
                       IF Len(callers) < FrameWalkLimit - own
                       THEN Len(callers) ELSE FrameWalkLimit - own)
  IN from_globals
     \o walk_frames(walked, {from_globals[i].name : i \in 1..Len(from_globals)})

\* the struct classes among the parameter types that are not collected yet
RECURSIVE param_structs(_, _)
param_structs(params, have) ==
  IF Len(params) = 0 THEN <<>>
  ELSE LET p == params[1].type
           ptype == IF p.k = "generic" THEN p.elt ELSE p
       IN IF IsStruct(ptype) /\ \A i \in 1..Len(have) : have[i] # ptype
          THEN <<ptype>> \o param_structs(Tail(params), Append(have, ptype))
          ELSE param_structs(Tail(params), have)

RECURSIVE struct_lines(_)
struct_lines(classes) ==
  IF Len(classes) = 0 THEN <<>>
  ELSE declare_struct(classes[1]) \o struct_lines(Tail(classes))

\* lines of one result followed by those of the next, or the exception of
\* the first that raised
extend(h, r) ==
  IF Failed(h) THEN h
  ELSE IF Failed(r) THEN r
  ELSE GlslCode(h.lines \o r.lines)

\* for f in self.library: lines.extend(GlslVisitor().visit(parse(f)).lines)
RECURSIVE library_lines(_)
library_lines(library) ==
  IF Len(library) = 0 THEN GlslCode(<<>>)
  ELSE extend(visit(parse(library[1].def)), library_lines(Tail(library)))

\* the result of compile(): the exception raised, or the lines of the text
\* returned (each with its group), and the stage's tree as compile left it
Compiled(lines, root) == [err |-> "", lines |-> lines, root |-> root]

CompileRaise(msg, root) == [err |-> msg, lines |-> <<>>, root |-> root]

\* the entry function's node renamed to main, without parameters and
\* return annotation
as_main(root) ==
  [root.body[1] EXCEPT !.name = "main", !.args = <<>>, !.returns = None]

param_names(self) == {self.params[i].name : i \in 1..Len(self.params)}

\* Stage.__init__
Stage_init(kind, func, version, library) ==
  [kind |-> kind, library |-> library, version |-> version, func |-> func,
   root |-> parse(func.def), params |-> func.hints, return_type |-> func.ret,
   layout |-> None]

\* the input declarations of the parameters, in the order given; with
\* arrays, a Sequence[...] parameter is declared as an unsized array unless
\* its element class is the built-in one, which is skipped
RECURSIVE input_blocks(_, _, _)
input_blocks(params, arrays, builtin) ==
  IF Len(params) = 0 THEN GlslCode(<<>>)
  ELSE LET name == params[1].name
           ptype == params[1].type
       IN extend(IF arrays /\ ptype.k = "generic" /\ ptype.origin = "Sequence"
                 THEN IF ptype.elt.name = builtin THEN GlslCode(<<>>)
                      ELSE declare_input_block(ptype.elt, name, "True")
                 ELSE declare_input_block(ptype, name, "<None>"),
                 input_blocks(Tail(params), arrays, builtin))

\* an assembly that writes the library functions ahead of the block
\* declarations
stage_lines_library_first(head, ins, outs, lib, main) ==
  head \o Tag("library", lib) \o Tag("block", ins) \o Tag("block", outs)
  \o Tag("main", main)

\* the lines of the returned text in the order compile() adds them to its
\* list: the head (version, layout, structs, shared variables), the input
\* declarations, the output declarations, the library, the entry function
stage_lines(head, ins, outs, lib, main) ==
  head \o Tag("block", ins) \o Tag("block", outs) \o Tag("library", lib)
  \o Tag("main", main)

(***************************************************************************)
(* compile() under way: the exception raised so far (err), the stage's     *)
(* tree (root), the entry function's node as the passes have left it       *)
(* (node), and the lines added to the text, by group.  Each step below     *)
(* takes the state the steps before it have left and does nothing once one *)
(* of them has raised; the steps of a compile() are read from the          *)
(* innermost call outwards.                                                *)
(***************************************************************************)
Begin(self, head) ==
  [err |-> "", root |-> self.root, node |-> as_main(self.root), head |-> head,
   ins |-> <<>>, outs |-> <<>>, lib |-> <<>>, main |-> <<>>]

Raised(st, msg) == [st EXCEPT !.err = msg]

\* lines += / lines.extend(...): the lines of one group are added
AddLines(group, code, st) ==
  IF st.err # "" THEN st
  ELSE IF Failed(code) THEN Raised(st, code.err)
  ELSE [st EXCEPT ![group] = code.lines]

\* the return type's output declarations, when there is a return type
output_block(return_type, array) ==
  IF return_type # None THEN declare_output_block(return_type, array)
  ELSE GlslCode(<<>>)

\* node = <rewriter>.visit(node), when the stage has a return type to
\* rewrite for
body_rewritten(st, rewritten) ==
  IF rewritten.err # "" THEN Raised(st, rewritten.err)
  ELSE [st EXCEPT !.node.body = rewritten.body]

RewriteReturns(enabled, indexed, interface, st) ==
  IF st.err # "" \/ ~enabled THEN st
  ELSE body_rewritten(st, RewriteReturn(indexed, interface, st.node.body))

\* node = _Renamer(GLSL_BUILTIN_RENAMES).visit(node)
Rename(st) ==
  IF st.err # "" THEN st
  ELSE [st EXCEPT !.node = Renamer(GLSL_BUILTIN_RENAMES, @)]

\* node = _Remover(rem_names).visit(node)
Remove(rem_names, st) ==
  IF st.err # "" THEN st ELSE [st EXCEPT !.node = Remover(rem_names, @)]

\* rem_names of Stage.compile, and the removal; a fragment stage reads the
\* name of its return type
Stage_remove(self, is_fragment, st) ==
  IF st.err # "" THEN st
  ELSE IF is_fragment /\ self.return_type = None
  THEN Raised(st, "AttributeError: 'NoneType' object has no attribute '__name__'")
  ELSE Remove(IF is_fragment
              THEN {self.params[i].name :
                      i \in {j \in 1..Len(self.params) :
                               self.params[j].type.base # "ShaderInterface"}}
                   \cup {snake_case(self.return_type.name)}
              ELSE param_names(self),
              st)

\* the passes have rewritten the entry function inside the stage's tree
Rewritten(st) == IF st.err # "" THEN st ELSE [st EXCEPT !.root = Module(<<st.node>>)]

\* self.root = extractor.visit(self.root); lines.extend(extractor.shared_decls)
shared_taken(st, extracted) ==
  IF extracted.err # "" THEN Raised(st, extracted.err)
  ELSE [st EXCEPT !.root = Module(extracted.body),
                  !.node = as_main(Module(extracted.body)),
                  !.head = @ \o Tag("shared", extracted.decls)
                           \o (IF Len(extracted.decls) # 0
                               THEN Tag("blank", <<"">>) ELSE <<>>)]

ExtractShared(st) ==
  IF st.err # "" THEN st ELSE shared_taken(st, SharedVarExtractor(st.root.body))

\* visitor.visit(self.root).lines
VisitRoot(st) == AddLines("main", visit(st.root), st)

\* compile() ends: the exception, or the text joined from the lines
Return_text(st) ==
  IF st.err # "" THEN CompileRaise(st.err, st.root)
  ELSE Compiled(stage_lines(st.head, st.ins, st.outs, st.lib, st.main), st.root)

\* the first lines of Stage.compile: the version and the struct declarations
Stage_head(self, callers, is_fragment) ==
  LET collected == collect_struct_definitions(self.func, callers,
                                              IF is_fragment THEN 3 ELSE 2)
      struct_classes == collected \o param_structs(self.params, collected)
  IN Tag("version", <<"#version " \o self.version>>)
     \o (IF Len(struct_classes) # 0
         THEN Tag("struct", struct_lines(struct_classes)) \o Tag("blank", <<"">>)
         ELSE <<>>)

\* Stage.compile (vertex and fragment stages)
Stage_compile(self, callers, is_fragment) ==
  Return_text(
    VisitRoot(
    AddLines("lib", library_lines(self.library),
    AddLines("outs", output_block(self.return_type, "<None>"),
    Rewritten(
    Stage_remove(self, is_fragment,
    Rename(
    RewriteReturns(TRUE, FALSE, self.return_type,
    AddLines("ins", input_blocks(sorted(self.params), FALSE, ""),
    Begin(self, Stage_head(self, callers, is_fragment)))))))))))

GeometryStage_head(self) ==
  Tag("version", <<"#version " \o self.version>>)
  \o Tag("layout",
         <<"layout(" \o self.layout.input_primitive \o ") in;",
           "layout(" \o self.layout.output_primitive \o ", max_vertices = "
           \o ToString(self.layout.max_vertices) \o ") out;">>)
  \o Tag("blank", <<"">>)

\* the class a geometry stage's outputs are instances of
actual_return_type(self) ==
  IF self.return_type.k = "generic" THEN self.return_type.elt
  ELSE self.return_type

\* GeometryStage.compile
GeometryStage_compile(self) ==
  Return_text(
    VisitRoot(
    AddLines("lib", library_lines(self.library),
    AddLines("outs", output_block(actual_return_type(self), "<None>"),
    Rewritten(
    Rename(
    RewriteReturns(self.return_type # None, FALSE, actual_return_type(self),
    AddLines("ins", input_blocks(sorted(self.params), TRUE, "GlGsIn"),
    Begin(self, GeometryStage_head(self))))))))))

TessControlStage_head(self) ==
  Tag("version", <<"#version " \o self.version>>)
  \o Tag("layout",
         <<"layout(vertices = " \o ToString(self.layout.vertices) \o ") out;">>)
  \o Tag("blank", <<"">>)

\* TessControlStage.compile
TessControlStage_compile(self) ==
  Return_text(
    VisitRoot(
    Rewritten(
    RewriteReturns(self.return_type # None, TRUE, self.return_type,
    AddLines("lib", library_lines(self.library),
    AddLines("outs", output_block(self.return_type, "True"),
    Rewritten(
    Rename(
    Remove(param_names(self),
    AddLines("ins", input_blocks(sorted(self.params), TRUE, "GlTessIn"),
    Begin(self, TessControlStage_head(self))))))))))))

TessEvalStage_head(self) ==
  Tag("version", <<"#version " \o self.version>>)
  \o Tag("layout",
         <<"layout(" \o self.layout.primitive_mode \o ", "
           \o (IF self.layout.spacing # "<None>" THEN self.layout.spacing
               ELSE "equal_spacing") \o ", "
           \o (IF self.layout.vertex_order # "<None>"
               THEN self.layout.vertex_order ELSE "ccw") \o ") in;">>)
  \o Tag("blank", <<"">>)

\* TessEvalStage.compile
TessEvalStage_compile(self) ==
  Return_text(
    VisitRoot(
    AddLines("lib", library_lines(self.library),
    AddLines("outs", output_block(self.return_type, "<None>"),
    Rewritten(
    Rename(
    Remove(param_names(self),
    RewriteReturns(self.return_type # None, FALSE, self.return_type,
    AddLines("ins", input_blocks(sorted(self.params), TRUE, "GlTessIn"),
    Begin(self, TessEvalStage_head(self)))))))))))

ComputeStage_head(self) ==
  Tag("version", <<"#version " \o self.version>>)
  \o Tag("layout",
         <<"layout(local_size_x = " \o ToString(self.layout.local_size_x)
           \o ", local_size_y = " \o ToString(self.layout.local_size_y)
           \o ", local_size_z = " \o ToString(self.layout.local_size_z)
           \o ") in;">>)
  \o Tag("blank", <<"">>)

\* ComputeStage.compile
ComputeStage_compile(self) ==
  Return_text(
    VisitRoot(
    AddLines("lib", library_lines(self.library),
    Rewritten(
    Rename(
    Remove(param_names(self),
    AddLines("ins", input_blocks(sorted(self.params), FALSE, ""),
    ExtractShared(
    Begin(self, ComputeStage_head(self))))))))))

\* the layout attribute each stage class of the second group reads
LayoutAttr ==
  [kind \in {"geometry", "tess_control", "tess_eval", "compute"} |->
     CASE kind = "geometry" -> "_geometry_layout"
       [] kind = "tess_control" -> "_tess_control_layout"
       [] kind = "tess_eval" -> "_tess_eval_layout"
       [] kind = "compute" -> "_compute_layout"]

\* the message of the ValueError each constructor raises for a function
\* without its layout attribute
LayoutError ==
  [kind \in DOMAIN LayoutAttr |->
     CASE kind = "geometry" ->
            "ValueError: Geometry shader must be decorated with @geometry_shader_layout. "
            \o "Example: @geometry_shader_layout(input_primitive=triangles, "
            \o "output_primitive=triangle_strip, max_vertices=3)"
       [] kind = "tess_control" ->
            "ValueError: Tessellation control shader must be decorated with "
            \o "@tessellation_control_layout"
       [] kind = "tess_eval" ->
            "ValueError: Tessellation evaluation shader must be decorated with "
            \o "@tessellation_evaluation_layout"
       [] kind = "compute" ->
            "ValueError: Compute shader must be decorated with @compute_shader_layout"]

\* a constructor that gives a compute function without layout attribute the
\* decorator's default sizes
construct_default_layout(kind, func, version, library) ==
  LET self == Stage_init(kind, func, version, library)
  IN IF kind \in {"vertex", "fragment"} THEN [err |-> "", self |-> self]
     ELSE IF LayoutAttr[kind] \notin DOMAIN func.attrs
     THEN IF kind = "compute"
          THEN [err |-> "",
                self |-> [self EXCEPT !.layout =
                            [local_size_x |-> 1, local_size_y |-> 1,
                             local_size_z |-> 1]]]
          ELSE [err |-> LayoutError[kind], self |-> None]
     ELSE [err |-> "",
           self |-> [self EXCEPT !.layout = func.attrs[LayoutAttr[kind]]]]

\* <Kind>Stage.__init__: the new stage object, or the exception raised
construct(kind, func, version, library) ==
  LET self == Stage_init(kind, func, version, library)
  IN IF kind \in {"vertex", "fragment"} THEN [err |-> "", self |-> self]
     ELSE IF LayoutAttr[kind] \notin DOMAIN func.attrs
     THEN [err |-> LayoutError[kind], self |-> None]
     ELSE [err |-> "",
           self |-> [self EXCEPT !.layout = func.attrs[LayoutAttr[kind]]]]

\* stage.compile() for the stage's class
compile(self, callers) ==
  CASE self.kind = "vertex" -> Stage_compile(self, callers, FALSE)
    [] self.kind = "fragment" -> Stage_compile(self, callers, TRUE)
    [] self.kind = "geometry" -> GeometryStage_compile(self)
    [] self.kind = "tess_control" -> TessControlStage_compile(self)
    [] self.kind = "tess_eval" -> TessEvalStage_compile(self)
    [] self.kind = "compute" -> ComputeStage_compile(self)

(***************************************************************************)
(* Translating one function: the inputs                                    *)
(***************************************************************************)
MaxArgs == 3

MaxBound == 4

MaxStep == 3

MaxElts == 3

\* all sequences over S of length at most n
RECURSIVE SeqsUpTo(_, _)
SeqsUpTo(S, n) ==
  IF n = 0 THEN {<<>>}
  ELSE LET shorter == SeqsUpTo(S, n - 1)
       IN shorter \cup {Append(s, x) : s \in {q \in shorter : Len(q) = n - 1}, x \in S}

IntLit(i) == IF i < 0 THEN UnaryOp("USub", IntC(0 - i)) ELSE IntC(i)

AssignTargets ==
  {Name("a"), Name("gl_Position"), Attribute(Name("v"), "x"),
   Subscript(Name("arr"), IntC(0))}

Callees ==
  {Name("vec3"), Name("float"), Name("Material"), Name("length"),
   Attribute(Name("m"), "f")}

CallValues ==
  {Call(f, as) : f \in Callees,
                 as \in SeqsUpTo({FloatC("1.0", 1), Name("b")}, MaxArgs)}

OtherValues ==
  {Name("b"), IntC(1), FloatC("2.5", 2),
   BinOp(Name("a"), "Add", BinOp(Name("b"), "Mult", FloatC("2.0", 2))),
   Subscript(Name("Array3"), Name("float")),
   Subscript(Name("b"), IntC(1)),
   List(<<>>), List(<<IntC(1), IntC(2)>>), List(<<IntC(1), FloatC("2.0", 2)>>)}

AssignStmts ==
  {Assign(<<t>>, v) : t \in AssignTargets, v \in CallValues \cup OtherValues}
  \cup {Assign(<<Name("a"), Name("b")>>, v) : v \in {Name("c"), Call(Name("vec3"), <<IntC(1)>>)}}

RangeArgs ==
  {<<IntLit(e)>> : e \in 0..MaxBound}
  \cup {<<IntLit(s), IntLit(e)>> : s \in 0..MaxBound, e \in 0..MaxBound}
  \cup {<<IntLit(s), IntLit(e), IntLit(st)>> :
          s \in 0..MaxBound, e \in 0..MaxBound, st \in (0 - MaxStep)..MaxStep}
  \cup {<<Name("n")>>, <<IntC(0), Name("n")>>, <<IntC(0), IntC(4), Name("n")>>}

CompElts ==
  {Name("i"), BinOp(Name("i"), "Mult", FloatC("0.5", 0))}

CompFilters ==
  {<<>>, <<Compare(BinOp(Name("i"), "Mod", IntC(2)), <<"Eq">>, <<IntC(0)>>)>>}

CompStmts ==
  {Assign(<<Name("arr")>>,
          ListComp(e, <<comprehension(Name("i"), Call(Name("range"), r), f)>>)) :
     e \in CompElts, r \in RangeArgs, f \in CompFilters}

\* assignments of list literals
ListElts ==
  {IntC(1), FloatC("2.0", 2), Name("b"), Attribute(Name("v"), "x")}

ListStmts ==
  {Assign(<<t>>, List(es)) : t \in AssignTargets,
                             es \in SeqsUpTo(ListElts, MaxElts)}

\* for loops over range(...)
ForStmts ==
  {For(Name("i"), Call(Name("range"), r),
       <<Assign(<<Name("a")>>, Call(Name("int"), <<Name("i")>>))>>) :
     r \in RangeArgs}

\* the operator classes of the ast module, by the kind of expression
UnaryOps == {"UAdd", "USub", "Not", "Invert"}

BinOps ==
  {"Add", "Sub", "Mult", "MatMult", "Div", "Mod", "LShift", "RShift",
   "BitOr", "BitXor", "BitAnd", "Pow", "FloorDiv"}

BoolOps == {"And", "Or"}

CmpOps ==
  {"Eq", "NotEq", "Lt", "LtE", "Gt", "GtE", "Is", "IsNot", "In", "NotIn"}

Operands == {Name("a"), FloatC("2.0", 2)}

\* expressions of one operator over plain operands
OperatorExprs ==
  {UnaryOp(op, x) : op \in UnaryOps, x \in Operands}
  \cup {BinOp(x, op, y) : op \in BinOps, x \in Operands, y \in Operands}
  \cup {BoolOp(op, vs) : op \in BoolOps,
                         vs \in {<<Name("a"), Name("b")>>,
                                 <<Name("a"), Name("b"), Name("c")>>}}
  \cup {Compare(x, <<op>>, <<y>>) : op \in CmpOps, x \in Operands,
                                    y \in Operands}
  \cup {Compare(Name("a"), <<"Lt", "Lt">>, <<Name("b"), Name("c")>>)}

\* an operator expression as a statement, and as the test of a branch
OperatorStmts ==
  {Expr(e) : e \in OperatorExprs}
  \cup {If(e, <<Assign(<<Name("a")>>, IntC(1))>>, <<>>) : e \in OperatorExprs}

\* expressions that have no translation
OverItems == <<comprehension(Name("i"), Name("items"), <<>>)>>

UnsupportedExprs ==
  {Lambda(IntC(1)), ListComp(Name("i"), OverItems),
   DictComp(Name("i"), Name("i"), OverItems), SetComp(Name("i"), OverItems),
   GeneratorExp(Name("i"), OverItems)}

\* loops over something else than range(...)
NonRangeLoops ==
  {For(Name("x"), it, <<Pass>>) :
     it \in {Name("items"), Call(Name("enumerate"), <<Name("items")>>),
             Call(Attribute(Name("a"), "items"), <<>>)}}

\* statements that hold a construct without translation: as the statement
\* itself, in a branch, as a value, and as a positional or keyword argument
UnsupportedStmts ==
  {With(<<Pass>>), Try(<<Pass>>),
   If(Name("flag"), <<With(<<Pass>>)>>, <<>>),
   If(Name("flag"), <<Pass>>, <<Try(<<Pass>>)>>)}
  \cup NonRangeLoops
  \cup {Assign(<<Name("a")>>, e) : e \in UnsupportedExprs \ {ListComp(Name("i"), OverItems)}}
  \cup {Return(e) : e \in UnsupportedExprs}
  \cup {Expr(Call(Name("f"), <<e>>)) : e \in UnsupportedExprs}
  \cup {Expr(CallKw(Name("f"), <<>>, <<keyword("key", e)>>)) :
          e \in UnsupportedExprs}
  \cup {Assign(<<Name("a")>>,
               CallKw(Name("vec3"), <<FloatC("1.0", 1)>>, <<keyword("key", e)>>)) :
          e \in UnsupportedExprs}

\* one-statement functions
\* a literal of each type as a statement of its own
Literals ==
  {BoolC(TRUE), BoolC(FALSE), IntC(1), FloatC("2.5", 2), StrC("doc"), NoneC}

LiteralStmts == {Expr(c) : c \in Literals}

StmtFuncs ==
  {FunctionDef("shader", <<>>, None, <<s>>) :
     s \in AssignStmts \cup CompStmts \cup ListStmts \cup ForStmts
           \cup OperatorStmts \cup UnsupportedStmts \cup LiteralStmts}

ReturnFirst ==
  {<<>>,
   <<If(Compare(Name("x"), <<"Lt">>, <<FloatC("0.0", 0)>>),
        <<Return(Call(Name("float"), <<FloatC("0.0", 0)>>))>>, <<>>)>>,
   <<If(Name("flag"),
        <<Return(Call(Name("vec4"), <<FloatC("1.0", 1)>>))>>,
        <<Return(Call(Name("vec4"), <<FloatC("0.0", 0)>>))>>)>>}

ReturnSecond ==
  {<<>>,
   <<For(Name("i"), Call(Name("range"), <<IntC(3)>>),
         <<If(Compare(Name("x"), <<"Gt">>, <<FloatC("1.0", 1)>>),
              <<Return(Call(Name("float"), <<FloatC("1.0", 1)>>))>>, <<>>)>>)>>}

ReturnMiddle ==
  {<<>>, <<Assign(<<Name("a")>>, Call(Name("vec3"), <<FloatC("1.0", 1)>>))>>}

ReturnLast ==
  {<<>>, <<Return(Name("x"))>>,
   <<Return(BinOp(Name("x"), "Mult", FloatC("2.0", 2)))>>}

ReturnFuncs ==
  {FunctionDef("helper", ps, rt,
               IF Len(b1 \o b2 \o b3 \o b4) = 0 THEN <<Pass>>
               ELSE b1 \o b2 \o b3 \o b4) :
     ps \in {<<>>, <<arg("x", Name("float"))>>,
             <<arg("x", Name("float")), arg("flag", Name("bool"))>>},
     rt \in {None, Name("float"), Name("vec4")},
     b1 \in ReturnFirst, b2 \in ReturnSecond, b3 \in ReturnMiddle,
     b4 \in ReturnLast}

VisitInputs == StmtFuncs \cup ReturnFuncs

\* the number of return statements in a list of statements
RECURSIVE NumReturns(_)
NumReturns(body) ==
  IF Len(body) = 0 THEN 0
  ELSE LET s == body[1]
           here == CASE s.k = "Return" -> 1
                     [] s.k = "If" -> NumReturns(s.body) + NumReturns(s.orelse)
                     [] s.k \in {"For", "While"} -> NumReturns(s.body)
                     [] OTHER -> 0
       IN here + NumReturns(Tail(body))

(***************************************************************************)
(* Translating one function: parse the function and visit the tree         *)
(***************************************************************************)
NoCode == [err |-> "", lines |-> <<>>]

InitVisit ==
  /\ node \in VisitInputs
  /\ glsl = NoCode
  /\ vpc = "parse"
  /\ inputs = None
  /\ stages = <<>>

\* GlslVisitor().visit(parse(func))
Translate ==
  /\ vpc = "parse"
  /\ glsl' = visit(parse(node))
  /\ vpc' = "done"
  /\ UNCHANGED <<node, inputs, stages>>

NextVisit == Translate

SpecVisit == InitVisit /\ [][NextVisit]_vars

(***************************************************************************)
(* pyglsl/parse.py: dedent, as parse() uses it: the lines it yields are    *)
(* joined, so an error leaves no lines.  inputs holds the source lines,    *)
(* glsl the lines dedent gave or the error it raised.                      *)
(***************************************************************************)
\* the characters str.lstrip() and str.strip() take off a source line
Whitespace == {" ", "\t"}

\* line.lstrip()
RECURSIVE str_lstrip(_)
str_lstrip(line) ==
  IF Len(line) > 0 /\ Char(line, 1) \in Whitespace
  THEN str_lstrip(SubSeq(line, 2, Len(line))) ELSE line

\* len(line[:strip_len].strip()) != 0
less_indentation(line, strip_len) ==
  \E j \in 1..strip_len : j <= Len(line) /\ Char(line, j) \notin Whitespace

\* a de-indentation that takes each line's own indentation off
dedent_each_line(lines) ==
  GlslCode([i \in 1..Len(lines) |-> str_lstrip(lines[i])])

\* '\n'.join(dedent(lines)), before the join: the lines without the
\* indentation of the first line, or the error for the first line that has
\* another character in that width
dedent(lines) ==
  IF Len(lines) = 0 THEN GlslCode(<<>>)
  ELSE LET strip_len == Len(lines[1]) - Len(str_lstrip(lines[1]))
           short == {i \in 1..Len(lines) : less_indentation(lines[i], strip_len)}
       IN IF short # {}
          THEN Raise("ValueError: less indentation than first line: "
                     \o lines[CHOOSE i \in short : \A h \in short : i <= h])
          ELSE GlslCode([i \in 1..Len(lines) |->
                           SubSeq(lines[i], strip_len + 1, Len(lines[i]))])

MaxLines == 2

MaxLineLen == 2

\* all strings over the characters of length at most n
RECURSIVE StringsUpTo(_, _)
StringsUpTo(chars, n) ==
  IF n = 0 THEN {""}
  ELSE StringsUpTo(chars, n - 1)
       \cup {s \o c : s \in StringsUpTo(chars, n - 1), c \in chars}

\* source blocks: lines of spaces, tabs and one other character
SourceBlocks ==
  SeqsUpTo(StringsUpTo(Whitespace \cup {"x"}, MaxLineLen), MaxLines)

InitDedent ==
  /\ inputs \in SourceBlocks
  /\ glsl = NoCode
  /\ vpc = "source"
  /\ node = None
  /\ stages = <<>>

\* dedent(lines) of the source lines
Dedent ==
  /\ vpc = "source"
  /\ glsl' = dedent(inputs)
  /\ vpc' = "dedented"
  /\ UNCHANGED <<node, inputs, stages>>

\* dedent(lines) of the lines dedent gave
DedentAgain ==
  /\ vpc = "dedented"
  /\ ~Failed(glsl)
  /\ glsl' = dedent(glsl.lines)
  /\ vpc' = "again"
  /\ UNCHANGED <<node, inputs, stages>>

NextDedent == Dedent \/ DedentAgain

SpecDedent == InitDedent /\ [][NextDedent]_vars

(***************************************************************************)
(* pyglsl/parse.py: a GlslCode and the calls made on it.  glsl is the      *)
(* accumulator; inputs lists, for each of its lines, the call that added   *)
(* it and the line as it was given to that call.                           *)
(***************************************************************************)
MaxAppended == 3

MaxBlock == 2

\* lines given to the accumulator: empty, unterminated, and ending with
\* each of the terminators
GivenLines == {"", "a", "b;", "c {", "}"}

GivenBlocks == SeqsUpTo(GivenLines, MaxBlock)

Given(by, line) == [by |-> by, line |-> line]

\* GlslCode() and GlslCode(initial_line)
InitAccumulate ==
  /\ \/ glsl = GlslCode(<<>>) /\ inputs = <<>>
     \/ \E line \in GivenLines :
          glsl = GlslCode(<<line>>) /\ inputs = <<Given("__init__", line)>>
  /\ vpc = "accumulate"
  /\ node = None
  /\ stages = <<>>

\* code(line)
CallCode(line) ==
  /\ vpc = "accumulate"
  /\ Len(glsl.lines) < MaxAppended
  /\ glsl' = add_line(glsl, line)
  /\ inputs' = Append(inputs, Given("__call__", line))
  /\ UNCHANGED <<node, vpc, stages>>

\* code.append_block(GlslCode holding the lines of block)
AppendBlock(block) ==
  /\ vpc = "accumulate"
  /\ Len(glsl.lines) + Len(block) <= MaxAppended
  /\ glsl' = append_block(glsl, GlslCode(block))
  /\ inputs' = inputs \o [i \in 1..Len(block) |-> Given("append_block", block[i])]
  /\ UNCHANGED <<node, vpc, stages>>

NextAccumulate ==
  \/ \E line \in GivenLines : CallCode(line)
  \/ \E block \in GivenBlocks : AppendBlock(block)

SpecAccumulate == InitAccumulate /\ [][NextAccumulate]_vars

(***************************************************************************)
(* Compiling a stage: the inputs                                           *)
(***************************************************************************)
MaxMembers == 3

MaxKeys == 2

MaxLibrary == 2

MaxQualified == 2

\* a function object
Function(def, hints, ret, attrs, globals) ==
  [def |-> def, hints |-> hints, ret |-> ret, attrs |-> attrs,
   globals |-> globals]

Hint(name, type) == [name |-> name, type |-> type]

\* the attributes of a function no decorator was applied to
Undecorated == "__name__" :> "shader"

\* pyglsl/glsl.py: the layout decorators, as the attributes they set
geometry_shader_layout(input_primitive, output_primitive, max_vertices) ==
  "_geometry_layout" :> [input_primitive |-> input_primitive,
                         output_primitive |-> output_primitive,
                         max_vertices |-> max_vertices]

tessellation_control_layout(vertices) ==
  "_tess_control_layout" :> [vertices |-> vertices]

tessellation_evaluation_layout(primitive_mode, spacing, vertex_order) ==
  "_tess_eval_layout" :> [primitive_mode |-> primitive_mode,
                          spacing |-> spacing, vertex_order |-> vertex_order]

compute_shader_layout(local_size_x, local_size_y, local_size_z) ==
  "_compute_layout" :> [local_size_x |-> local_size_x,
                        local_size_y |-> local_size_y,
                        local_size_z |-> local_size_z]

Decorations ==
  [kind \in DOMAIN LayoutAttr |->
     CASE kind = "geometry" -> geometry_shader_layout("triangles", "triangle_strip", 3)
       [] kind = "tess_control" -> tessellation_control_layout(3)
       [] kind = "tess_eval" ->
            tessellation_evaluation_layout("triangles", "<None>", "cw")
       [] kind = "compute" -> compute_shader_layout(16, 16, 1)]

\* a schema member `name = type(args)`
Member(name, type, args) == Assign(<<Name(name)>>, Call(Name(type), args))

\* pyglsl/glsl.py: the interpolation qualifier classes
InterpolationQualifiers == {"noperspective", "flat", "smooth"}

MemberPool ==
  {Member("a_pos", "vec3", <<>>), Member("gl_PointSize", "float", <<>>),
   Member("a_col", "vec4", <<Name("flat")>>)}

MemberBodies == SeqsUpTo(MemberPool, MaxMembers)

Attrs(body) == Class("Attrs", "AttributeBlock", body, FALSE)

FragOut(body) == Class("FragOut", "FragmentShaderOutputBlock", body, FALSE)

VertexAttribs == Attrs(<<Member("a_pos", "vec3", <<>>)>>)

VsOut ==
  Class("VsOut", "ShaderInterface",
        <<Member("gl_Position", "vec4", <<>>), Member("v_pos", "vec3", <<>>),
          Member("v_arr", "float", <<>>)>>, FALSE)

FragOutputs == FragOut(<<Member("color", "vec4", <<>>)>>)

Uniforms ==
  Class("Uniforms", "UniformBlock", <<Member("mvp", "mat4", <<>>)>>, FALSE)

GlGsIn == Class("GlGsIn", "ShaderInterface", <<>>, FALSE)

GsOut ==
  Class("GsOut", "ShaderInterface", <<Member("color", "vec4", <<>>)>>, FALSE)

\* a struct class of the module, and one defined inside a function
Material ==
  Class("Material", "GlslStruct", <<Member("albedo", "vec3", <<>>)>>, FALSE)

Light ==
  Class("Light", "GlslStruct", <<Member("power", "float", <<>>)>>, TRUE)

\* the classes str and dict
Builtin(name) == Class(name, "object", <<>>, FALSE)

One == Call(Name("vec4"), <<FloatC("1.0", 1)>>)

Yield(value) == [k |-> "Yield", value |-> value]

StageInput(kind, func, version, library) ==
  [kind |-> kind, func |-> func, version |-> version, library |-> library]

\* the signature of an entry function with the given type hints
Entry(hints, ret, body, attrs, globals) ==
  Function(FunctionDef("shader",
                       [i \in 1..Len(hints) |->
                          arg(hints[i].name,
                              IF hints[i].type.k = "generic"
                              THEN Subscript(Name(hints[i].type.origin),
                                             Name(hints[i].type.elt.name))
                              ELSE Name(hints[i].type.name))],
                       IF ret = None THEN None
                       ELSE IF ret.k = "generic"
                       THEN Subscript(Name(ret.origin), Name(ret.elt.name))
                       ELSE IF ret = NoneType THEN NoneC
                       ELSE Name(ret.name),
                       body),
           hints, ret, attrs, globals)

TesOut ==
  Class("TesOut", "ShaderInterface", <<Member("v_pos", "vec3", <<>>)>>, FALSE)

TcsOut ==
  Class("TcsOut", "ShaderInterface", <<Member("pos", "vec4", <<>>)>>, FALSE)

\* schemas with every choice of members, as the one attribute parameter of a
\* vertex stage and as the output of a fragment stage
MemberInputs ==
  {StageInput("vertex",
              Entry(<<Hint("attr", Attrs(body))>>, VsOut,
                    <<Return(CallKw(Name("VsOut"), <<>>,
                                    <<keyword("gl_position", One)>>))>>,
                    Undecorated, <<>>),
              "330 core", <<>>) : body \in MemberBodies}
  \cup
  {StageInput("fragment",
              Entry(<<Hint("vs_out", VsOut)>>, FragOut(body),
                    <<Return(CallKw(Name("FragOut"), <<>>,
                                    <<keyword("color", One)>>))>>,
                    Undecorated, <<>>),
              "330 core", <<>>) : body \in MemberBodies}

\* the keyword arguments a return statement may carry; p is a parameter name
ReturnPairs(p) ==
  {keyword("gl_Position", One),
   keyword("gl_position", Attribute(Name(p), "a_pos")),
   keyword("v_pos", Attribute(Name(p), "a_pos")),
   keyword("color", One),
   keyword("v_arr", Subscript(Name("Array3"), Name("float")))}

\* lists of keyword arguments; a call cannot repeat a keyword
KeywordLists(p) ==
  {kws \in SeqsUpTo(ReturnPairs(p), MaxKeys) :
     \A i, j \in 1..Len(kws) : kws[i].arg = kws[j].arg => i = j}

ReturnHints ==
  [kind \in {"vertex", "fragment", "tess_eval"} |->
     CASE kind = "vertex" ->
            {Hint("attr", VertexAttribs), Hint("vs_out", VertexAttribs)}
       [] kind = "fragment" ->
            {Hint("vs_out", VsOut), Hint("u", Uniforms), Hint("frag_out", VsOut)}
       [] kind = "tess_eval" -> {Hint("tc_out", VsOut), Hint("tes_out", VsOut)}]

ReturnTypes ==
  [kind \in {"vertex", "fragment", "tess_eval"} |->
     CASE kind = "vertex" -> VsOut
       [] kind = "fragment" -> FragOutputs
       [] kind = "tess_eval" -> TesOut]

\* entry functions whose body is one `return Output(k1=v1, ..., kn=vn)`
ReturnInputsOf(kind, h) ==
  {StageInput(kind,
              Entry(<<h>>, ReturnTypes[kind],
                    <<Return(CallKw(Name(ReturnTypes[kind].name), <<>>, kws))>>,
                    IF kind = "tess_eval"
                    THEN Undecorated @@ Decorations[kind] ELSE Undecorated,
                    <<>>),
              IF kind = "tess_eval" THEN "400 core" ELSE "330 core", <<>>) :
     kws \in KeywordLists(h.name)}

ReturnInputs ==
  UNION {UNION {ReturnInputsOf(kind, h) : h \in ReturnHints[kind]} :
           kind \in DOMAIN ReturnHints}

\* library functions: one with catalog types, one whose annotations name no
\* GLSL type, one with an argument without annotation, one taking a struct
ScaleFn ==
  Function(FunctionDef("scale", <<arg("x", Name("float"))>>, Name("float"),
                       <<Return(BinOp(Name("x"), "Mult", FloatC("2.0", 2)))>>),
           <<Hint("x", Builtin("float"))>>, Builtin("float"), Undecorated, <<>>)

LookupFn ==
  Function(FunctionDef("lookup", <<arg("x", Name("str"))>>, Name("dict"),
                       <<Return(Name("x"))>>),
           <<Hint("x", Builtin("str"))>>, Builtin("dict"), Undecorated, <<>>)

RawFn ==
  Function(FunctionDef("raw", <<arg("x", None)>>, None, <<Pass>>),
           <<>>, None, Undecorated, <<>>)

ShadeFn ==
  Function(FunctionDef("shade", <<arg("m", Name("Material"))>>, Name("vec3"),
                       <<Return(Attribute(Name("m"), "albedo"))>>),
           <<Hint("m", Material)>>, Builtin("vec3"), Undecorated, <<Material>>)

LibraryPool == {ScaleFn, LookupFn, RawFn, ShadeFn}

LibraryInputs ==
  {StageInput("vertex",
              Entry(<<Hint("attr", VertexAttribs)>>, VsOut,
                    <<Return(CallKw(Name("VsOut"), <<>>,
                                    <<keyword("gl_position", One)>>))>>,
                    Undecorated, globals),
              version, library) :
     library \in SeqsUpTo(LibraryPool, MaxLibrary),
     globals \in {<<>>, <<Material>>},
     version \in {"330 core", "450"}}

\* a statement that reads two built-ins by their lowercase names, as a bare
\* name and as an attribute
ReadsBuiltins ==
  Assign(<<Name("n")>>,
         BinOp(Name("gl_vertexid"), "Add",
               Attribute(Name("draw"), "gl_instanceid")))

\* bodies of a tessellation-control entry function: one return with a field
\* and a built-in keyword, an early return inside a branch, and built-ins
\* under their lowercase names
TcsBodies ==
  {<<ReadsBuiltins,
     Return(CallKw(Name("TcsOut"), <<>>,
                   <<keyword("gl_position", One), keyword("pos", One)>>))>>,
   <<Assign(<<Subscript(Name("gl_TessLevelInner"), IntC(0))>>,
            FloatC("3.0", 3)),
     Return(CallKw(Name("TcsOut"), <<>>, <<keyword("pos", One)>>))>>,
   <<Return(CallKw(Name("TcsOut"), <<>>,
                   <<keyword("gl_Position", One), keyword("pos", One)>>))>>,
   <<If(Compare(Name("gl_InvocationID"), <<"Eq">>, <<IntC(0)>>),
        <<Return(CallKw(Name("TcsOut"), <<>>, <<keyword("pos", One)>>))>>,
        <<>>),
     Return(CallKw(Name("TcsOut"), <<>>,
                   <<keyword("pos", Attribute(Subscript(Name("tc_in"), IntC(0)),
                                              "v_pos")),
                     keyword("level", FloatC("2.0", 2))>>))>>}

\* `name = shared(T)`
SharedAssign(target, args) == Assign(<<target>>, Call(Name("shared"), args))

\* bodies of a compute entry function: shared declarations first in the
\* body, alone in it, in nested blocks, and ones the extractor rejects
ComputeBodies ==
  {<<SharedAssign(Name("tile"), <<Subscript(Name("float"), IntC(256))>>),
     Assign(<<Name("m")>>, Attribute(Name("u"), "mvp"))>>,
   <<SharedAssign(Name("tile"), <<Name("vec4")>>)>>,
   <<If(Compare(Name("gl_LocalInvocationIndex"), <<"Eq">>, <<IntC(0)>>),
        <<Assign(<<Name("b")>>, IntC(1))>>,
        <<SharedAssign(Name("tile"), <<Name("vec4")>>),
          SharedAssign(Name("t2"), <<Name("int")>>)>>),
     For(Name("i"), Call(Name("range"), <<IntC(3)>>),
         <<SharedAssign(Name("t"), <<Name("vec4")>>),
           Assign(<<Name("a")>>, Call(Name("int"), <<Name("i")>>))>>),
     Assign(<<Name("m")>>, Attribute(Name("u"), "mvp")),
     SharedAssign(Name("t3"), <<Subscript(Name("float"), IntC(4))>>)>>,
   <<SharedAssign(Attribute(Name("a"), "x"), <<Name("int")>>)>>,
   <<SharedAssign(Name("t"), <<>>)>>}

\* what the entry function of each stage of the second group may look like:
\* its hints, its return hint and its body
LayoutShapes ==
  [kind \in DOMAIN LayoutAttr |->
     CASE kind = "geometry" ->
            {[hints |-> <<Hint("gl_in", Generic("Sequence", GlGsIn)),
                          Hint("vs_out", Generic("Sequence", VsOut))>>,
              ret |-> r, body |-> b] :
               r \in {None, Generic("Iterator", GsOut)},
               b \in {<<Assign(<<Name("pos")>>,
                               Attribute(Subscript(Name("gl_in"), IntC(0)),
                                         "gl_Position"))>>,
                      <<Expr(Yield(CallKw(Name("GsOut"), <<>>,
                                          <<keyword("color", One)>>)))>>}}
            \cup {[hints |-> <<Hint("gl_in", Generic("Sequence", GlGsIn)),
                             Hint("u", Uniforms)>>,
                   ret |-> None,
                   body |-> <<Assign(<<Name("m")>>,
                                     Attribute(Name("u"), "mvp"))>>]}
       [] kind = "tess_control" ->
            {[hints |-> <<Hint("tc_in", Generic("Sequence", VsOut))>>,
              ret |-> TcsOut, body |-> b] : b \in TcsBodies}
            \cup {[hints |-> <<>>, ret |-> None, body |-> <<Pass>>]}
       [] kind = "tess_eval" ->
            {[hints |-> <<Hint("tc_out", Generic("Sequence", TcsOut))>>,
              ret |-> TesOut,
              body |-> <<Return(CallKw(Name("TesOut"), <<>>,
                                       <<keyword("v_pos", Name("gl_TessCoord"))>>))>>],
             [hints |-> <<>>, ret |-> None, body |-> <<Pass>>]}
       [] kind = "compute" ->
            {[hints |-> <<Hint("u", Uniforms)>>, ret |-> None, body |-> b] :
               b \in ComputeBodies}
            \cup {[hints |-> <<>>, ret |-> None, body |-> <<Pass>>]}]

\* the decorations tried on the entry function of a stage of the second
\* group: none, the stage's own, and that of another stage
LayoutAttrs(kind) ==
  {Undecorated, Undecorated @@ Decorations[kind],
   Undecorated @@ Decorations[IF kind = "compute" THEN "geometry" ELSE "compute"]}

LayoutInputs ==
  UNION {{StageInput(kind, Entry(s.hints, s.ret, s.body, attrs, <<>>),
                     version, library) :
            s \in LayoutShapes[kind], attrs \in LayoutAttrs(kind),
            version \in {"430 core"}, library \in {<<>>, <<ScaleFn>>}} :
         kind \in DOMAIN LayoutAttr}

\* members of an interface block with each shape of positional arguments:
\* none, each interpolation qualifier, a name that is no qualifier, a
\* number, and two arguments
QualifiedPool ==
  {Member("v_pos", "vec4", <<>>)}
  \cup {Member("v_" \o q, "vec3", <<Name(q)>>) : q \in InterpolationQualifiers}
  \cup {Member("v_cen", "vec3", <<Name("centroid")>>),
        Member("v_num", "vec3", <<FloatC("1.0", 1)>>),
        Member("v_two", "vec3", <<Name("flat"), Name("smooth")>>)}

Varyings(body) == Class("Varyings", "ShaderInterface", body, FALSE)

\* a vertex stage whose output block has members from the pool
QualifiedInputs ==
  {StageInput("vertex",
              Entry(<<Hint("attr", VertexAttribs)>>, Varyings(body),
                    <<Return(CallKw(Name("Varyings"), <<>>,
                                    <<keyword("gl_position", One)>>))>>,
                    Undecorated, <<>>),
              "330 core", <<>>) : body \in SeqsUpTo(QualifiedPool, MaxQualified)}

\* entry functions whose hints are no interface classes
OddInputs ==
  {StageInput(kind, Entry(hints, ret, <<Pass>>, Undecorated, <<Material>>),
              "330 core", <<>>) :
     kind \in {"vertex", "fragment"},
     hints \in {<<>>, <<Hint("m", Material)>>,
                <<Hint("vs", Generic("Sequence", VsOut))>>,
                <<Hint("name", Builtin("str"))>>},
     ret \in {None, NoneType, VsOut, Builtin("dict")}}

\* `gl_VertexID == n`
VertexIs(n) == Compare(Name("gl_VertexID"), <<"Eq">>, <<IntC(n)>>)

ReturnVsOut(kws) == Return(CallKw(Name("VsOut"), <<>>, kws))

\* bodies with returns on more than one path: an early return in a branch
\* and a final return, one return in each branch, a statement between an
\* early return and the final one, and an early return two branches deep
EarlyReturnBodies ==
  {<<If(VertexIs(0),
        <<ReturnVsOut(<<keyword("v_pos", FloatC("1.0", 1))>>)>>, <<>>),
     ReturnVsOut(<<keyword("v_pos", FloatC("2.0", 2))>>)>>,
   <<If(VertexIs(0),
        <<ReturnVsOut(<<keyword("v_pos", FloatC("1.0", 1))>>)>>,
        <<ReturnVsOut(<<keyword("v_pos", FloatC("2.0", 2))>>)>>)>>,
   <<If(VertexIs(0),
        <<ReturnVsOut(<<keyword("gl_Position", FloatC("1.0", 1))>>)>>, <<>>),
     Assign(<<Name("x")>>, FloatC("3.0", 3)),
     ReturnVsOut(<<keyword("gl_Position", FloatC("2.0", 2)),
                   keyword("v_pos", FloatC("3.0", 3))>>)>>,
   <<If(VertexIs(0), <<Assign(<<Name("x")>>, FloatC("3.0", 3))>>,
        <<If(VertexIs(1),
             <<ReturnVsOut(<<keyword("v_pos", FloatC("1.0", 1))>>)>>, <<>>),
          ReturnVsOut(<<keyword("v_pos", FloatC("2.0", 2))>>)>>),
     ReturnVsOut(<<keyword("v_pos", FloatC("3.0", 3))>>)>>}

EarlyReturnInputs ==
  {StageInput("vertex",
              Entry(<<Hint("attr", VertexAttribs)>>, VsOut, body,
                    Undecorated, <<>>),
              "330 core", <<>>) : body \in EarlyReturnBodies}

\* expressions with attribute accesses rooted at the parameter `u` or at
\* another name: alone, as the base of another access, inside a call
\* argument, inside a subscript, and below a subscript or a call that is
\* the base of another access
PrefixedExprs ==
  {Attribute(Name(p), "mvp") : p \in {"u", "other"}}
  \cup {Attribute(Attribute(Name(p), "mvp"), "x") : p \in {"u", "other"}}
  \cup {Attribute(Attribute(Name("other"), "u"), "x"),
        Call(Name("f"), <<Attribute(Name("u"), "mvp")>>),
        Subscript(Attribute(Name("u"), "lights"), IntC(0)),
        Subscript(Name("arr"), Attribute(Name("u"), "idx")),
        Attribute(Subscript(Attribute(Name("u"), "lights"), IntC(0)), "pos"),
        Attribute(Subscript(Attribute(Name("other"), "lights"), IntC(0)), "pos"),
        Attribute(Call(Name("f"), <<Attribute(Name("u"), "mvp")>>), "x")}

\* a vertex stage that reads or writes one such expression
PrefixedInputs ==
  {StageInput("vertex",
              Entry(<<Hint("u", Uniforms)>>, None, <<stmt>>, Undecorated, <<>>),
              "330 core", <<>>) :
     stmt \in {Assign(<<Name("a")>>, e) : e \in PrefixedExprs}
              \cup {Assign(<<e>>, FloatC("1.0", 1)) :
                       e \in {t \in PrefixedExprs : t.k # "Call"}}}

\* a vertex stage that reads and writes built-ins by their lowercase names
LowercaseInputs ==
  {StageInput("vertex",
              Entry(<<Hint("attr", VertexAttribs)>>, VsOut,
                    <<ReadsBuiltins,
                      Return(CallKw(Name("VsOut"), <<>>,
                                    <<keyword("gl_position", One)>>))>>,
                    Undecorated, <<>>),
              "330 core", <<>>)}

\* a fragment stage that reads a member of its input block and a uniform
BlockReadInputs ==
  {StageInput("fragment",
              Entry(<<Hint("vs_out", VsOut), Hint("u", Uniforms)>>, FragOutputs,
                    <<Return(CallKw(Name("FragOut"), <<>>,
                                    <<keyword("color",
                                              Call(Name("vec4"),
                                                   <<Attribute(Name("vs_out"),
                                                               "v_pos"),
                                                     Attribute(Name("u"),
                                                               "mvp")>>))>>))>>,
                    Undecorated, <<>>),
              "330 core", <<>>)}

\* a vertex stage with two attribute-block parameters
Instances == Class("Instances", "AttributeBlock",
                   <<Member("a_off", "vec3", <<>>)>>, FALSE)

TwoBlockInputs ==
  {StageInput("vertex",
              Entry(<<Hint("attr", VertexAttribs), Hint("inst", Instances)>>,
                    VsOut,
                    <<Return(CallKw(Name("VsOut"), <<>>,
                                    <<keyword("gl_position", One)>>))>>,
                    Undecorated, <<>>),
              "330 core", <<>>)}

StageInputs == MemberInputs \cup ReturnInputs \cup LibraryInputs
               \cup LayoutInputs \cup OddInputs \cup QualifiedInputs
               \cup EarlyReturnInputs \cup PrefixedInputs \cup LowercaseInputs
               \cup BlockReadInputs \cup TwoBlockInputs

\* the frames below compile() on the call stack, each as the list of the
\* values of its local variables: a caller without struct classes, a caller
\* that defined one, and one that sits eight frames below
NoLocals == <<>>

CallerStacks ==
  {<<NoLocals>>, <<<<Light>>>>,
   <<NoLocals, NoLocals, NoLocals, NoLocals, NoLocals, NoLocals, NoLocals,
     <<Light>>>>}

(***************************************************************************)
(* Compiling a stage: two stage objects are made from the same inputs and  *)
(* each is compiled once                                                   *)
(***************************************************************************)
NoOutput == [err |-> "", lines |-> <<>>, root |-> None]

Fresh == [pc |-> "new", self |-> None, out |-> NoOutput]

Init ==
  /\ inputs \in StageInputs
  /\ stages = <<Fresh, Fresh>>
  /\ node = None
  /\ glsl = NoCode
  /\ vpc = "idle"

\* the stage after its constructor raised or returned
Constructed(made) ==
  IF made.err # ""
  THEN [pc |-> "rejected", self |-> None, out |-> CompileRaise(made.err, None)]
  ELSE [pc |-> "built", self |-> made.self, out |-> NoOutput]

\* the stage after compile() raised or returned
AfterCompile(stage, result) ==
  [pc |-> "compiled", self |-> [stage.self EXCEPT !.root = result.root],
   out |-> result]

\* stage = <Kind>Stage(func, version, library)
Construct(i) ==
  /\ stages[i].pc = "new"
  /\ stages' = [stages EXCEPT ![i] =
                  Constructed(construct(inputs.kind, inputs.func,
                                        inputs.version, inputs.library))]
  /\ UNCHANGED <<node, glsl, vpc, inputs>>

\* stage.compile(), called with the given frames below it
Compile(i, callers) ==
  /\ stages[i].pc = "built"
  /\ stages' = [stages EXCEPT ![i] =
                  AfterCompile(@, compile(stages[i].self, callers))]
  /\ UNCHANGED <<node, glsl, vpc, inputs>>

Next ==
  \E i \in 1..2 :
    \/ Construct(i)
    \/ \E callers \in CallerStacks : Compile(i, callers)

Spec == Init /\ [][Next]_vars

(***************************************************************************)
(* Two compile() calls, statement by statement.  The host makes two stage  *)
(* objects with one version and one library list and calls compile() on    *)
(* each; the statements of the two calls interleave.  A call under way     *)
(* holds its frames (callers), the state of its locals and of the stage's  *)
(* tree (st), the statements it has still to run (todo) and those it ran   *)
(* (done), and whether it ran one while the other call was under way       *)
(* (overlap).  inputs.library is the list object both stages hold.         *)
(***************************************************************************)
\* a compile() that runs its passes before it declares anything
Stage_steps_passes_first(self) ==
  <<"rewrite_return", "rename", "remove", "inputs">>
  \o (IF self.return_type # None THEN <<"outputs">> ELSE <<>>)
  \o <<"library">>

\* the statements between the first lines of compile() and its return, in
\* the order of the source; a declaration or pass under an `if` is listed
\* when the condition holds
Stage_steps(self) ==
  <<"inputs", "rewrite_return", "rename", "remove">>
  \o (IF self.return_type # None THEN <<"outputs">> ELSE <<>>)
  \o <<"library">>

GeometryStage_steps(self) ==
  <<"inputs">>
  \o (IF self.return_type # None THEN <<"rewrite_return">> ELSE <<>>)
  \o <<"rename">>
  \o (IF self.return_type # None THEN <<"outputs">> ELSE <<>>)
  \o <<"library">>

TessControlStage_steps(self) ==
  <<"inputs", "remove", "rename">>
  \o (IF self.return_type # None THEN <<"outputs">> ELSE <<>>)
  \o <<"library">>
  \o (IF self.return_type # None THEN <<"rewrite_return">> ELSE <<>>)

TessEvalStage_steps(self) ==
  <<"inputs">>
  \o (IF self.return_type # None THEN <<"rewrite_return">> ELSE <<>>)
  \o <<"remove", "rename">>
  \o (IF self.return_type # None THEN <<"outputs">> ELSE <<>>)
  \o <<"library">>

ComputeStage_steps(self) ==
  <<"extract_shared", "inputs", "remove", "rename", "library">>

steps(self) ==
  CASE self.kind \in {"vertex", "fragment"} -> Stage_steps(self)
    [] self.kind = "geometry" -> GeometryStage_steps(self)
    [] self.kind = "tess_control" -> TessControlStage_steps(self)
    [] self.kind = "tess_eval" -> TessEvalStage_steps(self)
    [] self.kind = "compute" -> ComputeStage_steps(self)

\* the first lines of compile(): the version, layout and struct lines
head(self, callers) ==
  CASE self.kind = "vertex" -> Stage_head(self, callers, FALSE)
    [] self.kind = "fragment" -> Stage_head(self, callers, TRUE)
    [] self.kind = "geometry" -> GeometryStage_head(self)
    [] self.kind = "tess_control" -> TessControlStage_head(self)
    [] self.kind = "tess_eval" -> TessEvalStage_head(self)
    [] self.kind = "compute" -> ComputeStage_head(self)

\* the stages whose Sequence[...] parameters are declared as arrays
ArrayStages == {"geometry", "tess_control", "tess_eval"}

\* one statement of compile(), on the state the statements before it left;
\* a pass rewrites the entry function inside the stage's tree
step(name, self, st) ==
  CASE name = "inputs" ->
         AddLines("ins",
                  input_blocks(sorted(self.params), self.kind \in ArrayStages,
                               CASE self.kind = "geometry" -> "GlGsIn"
                                 [] self.kind \in {"tess_control", "tess_eval"}
                                      -> "GlTessIn"
                                 [] OTHER -> ""),
                  st)
    [] name = "rewrite_return" ->
         Rewritten(RewriteReturns(TRUE, self.kind = "tess_control",
                                  IF self.kind = "geometry"
                                  THEN actual_return_type(self)
                                  ELSE self.return_type,
                                  st))
    [] name = "rename" -> Rewritten(Rename(st))
    [] name = "remove" ->
         Rewritten(IF self.kind \in {"vertex", "fragment"}
                   THEN Stage_remove(self, self.kind = "fragment", st)
                   ELSE Remove(param_names(self), st))
    [] name = "outputs" ->
         AddLines("outs",
                  output_block(IF self.kind = "geometry"
                               THEN actual_return_type(self)
                               ELSE self.return_type,
                               IF self.kind = "tess_control" THEN "True"
                               ELSE "<None>"),
                  st)
    [] name = "library" -> AddLines("lib", library_lines(self.library), st)
    [] name = "extract_shared" -> ExtractShared(st)

\* a loop over the library that takes each function off the list
library_drained(library) == <<>>

\* `for f in self.library: ...` reads the list and leaves it as it is
library_left(library) == library

\* the entry functions of the two stages: a vertex and a fragment function,
\* and each shape of the stages with a layout, decorated for its stage
VertexEntry ==
  [kind |-> "vertex",
   func |-> Entry(<<Hint("attr", VertexAttribs)>>, VsOut,
                  <<Return(CallKw(Name("VsOut"), <<>>,
                                  <<keyword("gl_position", One),
                                    keyword("v_pos", Attribute(Name("attr"),
                                                               "a_pos"))>>))>>,
                  Undecorated, <<>>)]

FragmentEntry ==
  [kind |-> "fragment",
   func |-> Entry(<<Hint("vs_out", VsOut)>>, FragOutputs,
                  <<Return(CallKw(Name("FragOut"), <<>>,
                                  <<keyword("color", One)>>))>>,
                  Undecorated, <<>>)]

LayoutEntries ==
  UNION {{[kind |-> kind,
           func |-> Entry(s.hints, s.ret, s.body,
                          Undecorated @@ Decorations[kind], <<>>)] :
            s \in LayoutShapes[kind]} : kind \in DOMAIN LayoutAttr}

StepEntries == {VertexEntry, FragmentEntry} \cup LayoutEntries

\* two stages of one program: any stage next to the vertex or the fragment
\* stage, and two stages made from one function
StepPairs ==
  {pair \in StepEntries \X StepEntries :
     pair[2] \in {VertexEntry, FragmentEntry, pair[1]}}

StepInputs ==
  {[entries |-> pair, version |-> "430 core", library |-> library] :
     pair \in StepPairs, library \in {<<>>, <<ScaleFn>>}}

\* the frames below each of the two calls
StepCallers == {<<NoLocals>>, <<<<Light>>>>}

\* a stage object on which compile() has not been called
Uncalled(stage) ==
  [pc |-> stage.pc, self |-> stage.self, out |-> stage.out, callers |-> <<>>,
   st |-> None, todo |-> <<>>, done |-> <<>>, overlap |-> FALSE]

InitSteps ==
  /\ inputs \in StepInputs
  /\ stages = [i \in 1..2 |->
                 Uncalled(Constructed(construct(inputs.entries[i].kind,
                                                inputs.entries[i].func,
                                                inputs.version,
                                                inputs.library)))]
  /\ node = None
  /\ glsl = NoCode
  /\ vpc = "idle"

\* the stage object as the call reads it: its library is the shared list
SelfOf(i) == [stages[i].self EXCEPT !.library = inputs.library]

\* the other call is under way
Overlapping(i) == stages[3 - i].pc = "compiling"

\* the call after its first lines
Started(stage, self, callers, overlapping) ==
  [stage EXCEPT !.pc = "compiling", !.callers = callers,
                !.st = Begin(self, head(self, callers)),
                !.todo = steps(self), !.overlap = overlapping]

\* the call after its next statement
Stepped(stage, self, overlapping) ==
  [stage EXCEPT !.st = step(Head(stage.todo), self, stage.st),
                !.todo = Tail(stage.todo),
                !.done = Append(stage.done, Head(stage.todo)),
                !.overlap = stage.overlap \/ overlapping]

\* the call after it raised or returned
Ended(stage, result, overlapping) ==
  [stage EXCEPT !.pc = "compiled", !.out = result, !.self.root = result.root,
                !.overlap = stage.overlap \/ overlapping]

\* compile() is called on stage i
Start(i, callers) ==
  /\ stages[i].pc = "built"
  /\ stages' = [stages EXCEPT ![i] =
                  Started(@, SelfOf(i), callers, Overlapping(i))]
  /\ UNCHANGED <<node, glsl, vpc, inputs>>

\* the call on stage i runs its next statement
Step(i) ==
  /\ stages[i].pc = "compiling"
  /\ stages[i].st.err = ""
  /\ stages[i].todo # <<>>
  /\ stages' = [stages EXCEPT ![i] = Stepped(@, SelfOf(i), Overlapping(i))]
  /\ inputs' = [inputs EXCEPT !.library =
                  IF Head(stages[i].todo) = "library" THEN library_left(@)
                  ELSE @]
  /\ UNCHANGED <<node, glsl, vpc>>

\* the call on stage i raises, or visits the tree and returns the text
Finish(i) ==
  /\ stages[i].pc = "compiling"
  /\ stages[i].st.err # "" \/ stages[i].todo = <<>>
  /\ stages' = [stages EXCEPT ![i] =
                  Ended(@, Return_text(VisitRoot(stages[i].st)),
                        Overlapping(i))]
  /\ UNCHANGED <<node, glsl, vpc, inputs>>

NextSteps ==
  \E i \in 1..2 :
    \/ \E callers \in StepCallers : Start(i, callers)
    \/ Step(i)
    \/ Finish(i)

SpecSteps == InitSteps /\ [][NextSteps]_vars

(***************************************************************************)
(* compile() called more than once on one stage object.  The stage keeps   *)
(* the frames every call is made from (callers) and what each call         *)
(* returned or raised (results).                                           *)
(***************************************************************************)
MaxCalls == 3

\* a stage object before its constructor ran
Unbuilt(callers) ==
  [pc |-> "new", self |-> None, out |-> NoOutput, callers |-> callers,
   results |-> <<>>]

InitAgain ==
  /\ inputs \in StageInputs
  /\ stages \in {<<Unbuilt(callers)>> : callers \in StepCallers}
  /\ node = None
  /\ glsl = NoCode
  /\ vpc = "idle"

\* the stage after its constructor
Built(stage, made) ==
  [pc |-> made.pc, self |-> made.self, out |-> made.out,
   callers |-> stage.callers, results |-> <<>>]

\* the stage after one more call of compile()
Called(stage, after) ==
  [pc |-> after.pc, self |-> after.self, out |-> after.out,
   callers |-> stage.callers, results |-> Append(stage.results, after.out)]

\* stage = <Kind>Stage(func, version, library)
ConstructOne ==
  /\ stages[1].pc = "new"
  /\ stages' = <<Built(stages[1],
                       Constructed(construct(inputs.kind, inputs.func,
                                             inputs.version, inputs.library)))>>
  /\ UNCHANGED <<node, glsl, vpc, inputs>>

\* stage.compile(), the first time or again
CompileAgain ==
  /\ stages[1].pc \in {"built", "compiled"}
  /\ Len(stages[1].results) < MaxCalls
  /\ stages' = <<Called(stages[1],
                        AfterCompile(stages[1],
                                     compile(stages[1].self,
                                             stages[1].callers)))>>
  /\ UNCHANGED <<node, glsl, vpc, inputs>>

NextAgain == ConstructOne \/ CompileAgain

SpecAgain == InitAgain /\ [][NextAgain]_vars

(***************************************************************************)
(* Properties of the translation of one function                           *)
(***************************************************************************)
RECURSIVE lstrip(_)
lstrip(s) ==
  IF Len(s) > 0 /\ Char(s, 1) = " " THEN lstrip(SubSeq(s, 2, Len(s))) ELSE s

ContainsStr(s, sub) ==
  \E i \in 1..(Len(s) - Len(sub) + 1) : SubSeq(s, i, i + Len(sub) - 1) = sub

\* the text of an expression, as the visitor renders it
TextOf(e) ==
  LET r == one(visit(e)) IN IF Failed(r) THEN "<error>" ELSE r.lines[1]

Done == vpc = "done"

Translated == Done /\ ~Failed(glsl)

\* the function under translation holds one plain assignment statement
OneAssign ==
  /\ node.k = "FunctionDef" /\ node.name = "shader"
  /\ node.body[1].k = "Assign" /\ Len(node.body[1].targets) = 1
  /\ node.body[1].value.k \notin {"List", "ListComp"}
  /\ ArraySpec_from_ast_node(node.body[1].value) = None

BareUserName(t) == t.k = "Name" /\ ~startswith(t.id, "gl_")

TypeCallee(f) ==
  f.k = "Name" /\ (f.id \in GLSL_BUILTIN_TYPES
                   \/ (Len(f.id) > 0 /\ isupper(Char(f.id, 1))))

DeclLine(s) ==
  "    " \o s.value.func.id \o " " \o s.targets[1].id \o " = "
  \o TextOf(s.value) \o ";"

PlainLine(s) == "    " \o TextOf(s.targets[1]) \o " = " \o TextOf(s.value) \o ";"

IsReturnLine(line) ==
  lstrip(line) = "return" \/ startswith(lstrip(line), "return ")

ReturnLines(lines) == {i \in 1..Len(lines) : IsReturnLine(lines[i])}

TempDeclLines(lines) ==
  {i \in 1..Len(lines) :
     \E ty \in GLSL_BUILTIN_TYPES :
       startswith(lstrip(lines[i]), ty \o " _return_value")}

\* the function under translation is one of the functions with returns
ReturnFunc == node.k = "FunctionDef" /\ node.name = "helper"

\* C8: a function with more than one return statement is emitted with
\* exactly one return statement, the trailing `return _return_value;`, and
\* exactly one declaration of the temporary
C8_SingleReturnEmitted ==
  (Translated /\ ReturnFunc /\ NumReturns(node.body) > 1) =>
    /\ Cardinality(ReturnLines(glsl.lines)) = 1
    /\ glsl.lines[Len(glsl.lines) - 1] = "    return _return_value;"
    /\ Cardinality(TempDeclLines(glsl.lines)) = 1

CeilDiv(a, b) == 0 - FloorDiv(0 - a, b)

\* the function under translation holds one comprehension assignment
\* whose range() arguments are integer constants
ConstComp ==
  /\ node.k = "FunctionDef" /\ node.name = "shader"
  /\ node.body[1].k = "Assign" /\ node.body[1].value.k = "ListComp"
  /\ \A i \in 1..Len(node.body[1].value.generators[1].iter.args) :
       EvalInt(node.body[1].value.generators[1].iter.args[i]).ok

RangeOf(s) ==
  LET a == s.value.generators[1].iter.args
  IN [start |-> IF Len(a) = 1 THEN 0 ELSE EvalInt(a[1]).v,
      end |-> IF Len(a) = 1 THEN EvalInt(a[1]).v ELSE EvalInt(a[2]).v,
      step |-> IF Len(a) = 3 THEN EvalInt(a[3]).v ELSE 1]

\* C10: the length in the array declaration emitted for a constant-bound
\* comprehension is ceil((end - start) / step)
C10_LengthIsCeil ==
  (Translated /\ ConstComp) =>
    LET r == RangeOf(node.body[1])
    IN \E ty \in {"int", "float"} :
         glsl.lines[2] = "    " \o ty \o " arr["
                         \o ToString(CeilDiv(r.end - r.start, r.step)) \o "];"

(***************************************************************************)
(* Properties of compiling a stage                                         *)
(***************************************************************************)
endswith(s, suffix) ==
  Len(s) >= Len(suffix) /\ SubSeq(s, Len(s) - Len(suffix) + 1, Len(s)) = suffix

\* stage i has been compiled and compile() returned a text
Returned(i) == stages[i].pc = "compiled" /\ stages[i].out.err = ""

\* the lines of one group of the text stage i returned
GroupLines(i, g) ==
  Texts(SelectSeq(stages[i].out.lines, LAMBDA l : l.g = g))

Groups(i) == {stages[i].out.lines[j].g : j \in 1..Len(stages[i].out.lines)}

\* C1: two stages made from the same function, library and version return
\* the same text when compiled
C1_SameInputsSameText ==
  (Returned(1) /\ Returned(2)) =>
    Texts(stages[1].out.lines) = Texts(stages[2].out.lines)

\* the place of a group in the order of the output; blank lines and shared
\* variable declarations belong to none of the groups that are ordered
Rank(g) ==
  CASE g = "version" -> 0
    [] g = "layout" -> 1
    [] g = "struct" -> 2
    [] g = "block" -> 3
    [] g = "library" -> 4
    [] g = "main" -> 5

Ranked == {"version", "layout", "struct", "block", "library", "main"}

\* C2: the first line of a returned text is `#version <version>`, the
\* groups follow in the order layout, structs, blocks, library, main, no
\* line of an earlier group comes after one of a later group, and the text
\* ends with the definition of main
C2_GroupOrder ==
  \A i \in 1..2 :
    Returned(i) =>
      LET lines == stages[i].out.lines
      IN /\ lines[1] = [g |-> "version", s |-> "#version " \o inputs.version]
         /\ \A j \in 2..Len(lines) : lines[j].g # "version"
         /\ \A j, m \in 1..Len(lines) :
              (j < m /\ lines[j].g \in Ranked /\ lines[m].g \in Ranked) =>
                Rank(lines[j].g) <= Rank(lines[m].g)
         /\ lines[Len(lines)] = [g |-> "main", s |-> "}"]
         /\ GroupLines(i, "main")[1] = "void main() {"

C2_Witness ==
  \E i \in 1..2 :
    /\ Returned(i)
    /\ {"struct", "block", "library", "main"} \subseteq Groups(i)
    /\ GroupLines(i, "library")[1] = "float scale(float x) {"

\* the entry function is one `return Output(k1=v1, ..., kn=vn)` of a
\* vertex, fragment or tessellation-evaluation stage whose return hint is
\* an interface class, and stage i returned a text for it
ReturnCase(i) ==
  /\ Returned(i)
  /\ inputs.kind \in {"vertex", "fragment", "tess_eval"}
  /\ inputs.func.ret.k = "class" /\ inputs.func.ret.base \in InterfaceBases
  /\ Len(inputs.func.def.body) = 1
  /\ inputs.func.def.body[1].k = "Return"
  /\ inputs.func.def.body[1].value.k = "Call"

ReturnKeywords == inputs.func.def.body[1].value.keywords

\* the name GLSL gives a built-in
BuiltinName(key) ==
  IF key \in DOMAIN GLSL_BUILTIN_RENAMES THEN GLSL_BUILTIN_RENAMES[key] ELSE key

OutputInstance == snake_case(inputs.func.ret.name)

WrittenTarget(key) ==
  IF startswith(key, "gl_") THEN BuiltinName(key)
  ELSE IF inputs.kind = "fragment"
          \/ \E p \in 1..Len(inputs.func.hints) :
               inputs.func.hints[p].name = OutputInstance
  THEN key
  ELSE OutputInstance \o "." \o key

RECURSIVE UserMembers(_)
UserMembers(body) ==
  IF Len(body) = 0 THEN <<>>
  ELSE (IF startswith(body[1].targets[1].id, "gl_") THEN <<>>
        ELSE <<body[1].targets[1].id>>)
       \o UserMembers(Tail(body))

\* the declarations of stage i's text that carry a location
Located(i) ==
  SelectSeq(GroupLines(i, "block"), LAMBDA s : ContainsStr(s, "layout(location="))

\* the schema whose members get locations: the attribute block parameter of
\* a vertex stage, the output block of a fragment stage
LocatedSchema ==
  IF inputs.kind = "vertex" THEN inputs.func.hints[1].type ELSE inputs.func.ret

LocatedCase(i) ==
  /\ Returned(i)
  /\ \/ /\ inputs.kind = "vertex" /\ Len(inputs.func.hints) = 1
        /\ inputs.func.hints[1].type.k = "class"
        /\ inputs.func.hints[1].type.base = "AttributeBlock"
     \/ /\ inputs.kind = "fragment" /\ inputs.func.ret.k = "class"
        /\ inputs.func.ret.base = "FragmentShaderOutputBlock"

\* C5: the i-th member (from 0) of an attribute block or fragment-output
\* block whose name does not start with gl_ is declared with
\* layout(location=i), so the locations are 0..k-1 without gap or repeat
C5_LocationsCountFromZero ==
  \A i \in 1..2 :
    LocatedCase(i) =>
      LET names == UserMembers(LocatedSchema.body)
          decls == Located(i)
          dir == IF inputs.kind = "vertex" THEN " in " ELSE " out "
      IN /\ Len(decls) = Len(names)
         /\ \A j \in 1..Len(names) :
              /\ ContainsStr(decls[j], "layout(location=" \o ToString(j - 1) \o ")")
              /\ ContainsStr(decls[j], dir)
              /\ endswith(decls[j], " " \o names[j] \o ";")

C5_Witness ==
  \E i \in 1..2 :
    /\ LocatedCase(i)
    /\ inputs.kind = "vertex"
    /\ UserMembers(LocatedSchema.body) = <<"a_pos", "a_col">>
    /\ Len(LocatedSchema.body) = 3
    /\ LocatedSchema.body[2].targets[1].id = "gl_PointSize"
    /\ Located(i) = <<"layout(location=0) in vec3 a_pos;",
                      "layout(location=1) flat in vec4 a_col;">>

\* the entry function carries the layout attribute of the stage's kind
Annotated == LayoutAttr[inputs.kind] \in DOMAIN inputs.func.attrs

\* C6: in a geometry, tessellation or compute stage, an entry function
\* without the stage's layout annotation ends in the constructor's error and
\* no text is returned for it; one with the annotation never gets this error
C6_LayoutRequired ==
  \A i \in 1..2 :
    inputs.kind \in DOMAIN LayoutAttr =>
      IF Annotated
      THEN /\ stages[i].pc # "rejected"
           /\ stages[i].out.err # LayoutError[inputs.kind]
      ELSE /\ stages[i].pc \in {"new", "rejected"}
           /\ stages[i].out.lines = <<>>
           /\ stages[i].pc = "rejected" =>
                stages[i].out.err = LayoutError[inputs.kind]

C6_Witness ==
  /\ inputs.kind = "compute"
  /\ ~Annotated
  /\ "_geometry_layout" \in DOMAIN inputs.func.attrs
  /\ stages[1].pc = "rejected"
  /\ startswith(stages[1].out.err, "ValueError: Compute shader must be decorated")
  /\ stages[2].pc = "new"

\* the type markers of a function's signature: the annotation of each
\* parameter and the return annotation (the element type of an array)
MarkerOf(annotation) ==
  IF annotation.k = "Subscript" THEN annotation.slice.id
  ELSE IF annotation.k = "Name" THEN annotation.id
  ELSE "void"

SignatureMarkers(def) ==
  {MarkerOf(def.args[a].annotation) : a \in 1..Len(def.args)}
  \cup (IF def.returns = None THEN {} ELSE {MarkerOf(def.returns)})

\* the struct and interface classes declared in the text of stage i
DeclaredTypes(i) ==
  {name \in {"Material", "Light", "VsOut", "Attrs", "FragOut", "Uniforms",
             "TesOut", "TcsOut", "GsOut"} :
     \E j \in 1..Len(stages[i].out.lines) :
       LET l == stages[i].out.lines[j]
       IN \/ l.g = "struct" /\ l.s = "struct " \o name \o " {"
          \/ l.g = "block" /\ endswith(l.s, " " \o name \o " {")}

\* C7: a type marker of a library function's signature that is neither in
\* the type catalog nor a declared struct or interface block makes the
\* compilation fail; no text is returned that uses it as a type
C7_UnresolvedMarkerFails ==
  \A i \in 1..2 :
    Returned(i) =>
      \A f \in 1..Len(inputs.library) :
        SignatureMarkers(inputs.library[f].def)
          \subseteq (GLSL_BUILTIN_TYPES \cup {"void"} \cup DeclaredTypes(i))

(***************************************************************************)
(* Properties of the translation of one function, continued                *)
(***************************************************************************)
\* the function under translation holds one assignment of a list literal to
\* a bare name
ListAssign ==
  /\ node.k = "FunctionDef" /\ node.name = "shader"
  /\ node.body[1].k = "Assign" /\ Len(node.body[1].targets) = 1
  /\ node.body[1].targets[1].k = "Name"
  /\ node.body[1].value.k = "List"

\* float when the text of some element holds a decimal point, else int
LiteralType(elts) ==
  IF \E i \in 1..Len(elts) : Contains(TextOf(elts[i]), ".")
  THEN "float" ELSE "int"

ArrayLine(name, elts) ==
  "    " \o LiteralType(elts) \o " " \o name \o "[" \o ToString(Len(elts))
  \o "] = " \o LiteralType(elts) \o "[" \o ToString(Len(elts)) \o "]("
  \o Join(", ", [i \in 1..Len(elts) |-> TextOf(elts[i])]) \o ");"

\* C11: a non-empty list literal of n elements assigned to a bare name is
\* emitted as `<type> <name>[n] = <type>[n](<elems>);` with type float when
\* the text of some element holds a decimal point and int otherwise; an
\* empty list literal raises an error and nothing is emitted
C11_ArrayLiteral ==
  (Done /\ ListAssign) =>
    LET s == node.body[1]
    IN IF Len(s.value.elts) = 0
       THEN Failed(glsl) /\ glsl.lines = <<>>
       ELSE /\ ~Failed(glsl)
            /\ glsl.lines = <<"void shader() {",
                              ArrayLine(s.targets[1].id, s.value.elts), "}">>

C11_Witness ==
  /\ Done /\ ListAssign
  /\ node.body[1].value.elts = <<IntC(1), FloatC("2.0", 2), Name("b")>>
  /\ glsl.lines[2] = "    float a[3] = float[3](1, 2.0, b);"

\* the function under translation holds one for loop over range(...) with
\* one to three arguments
RangeLoop ==
  /\ node.k = "FunctionDef" /\ node.name = "shader"
  /\ node.body[1].k = "For" /\ node.body[1].target.k = "Name"
  /\ node.body[1].iter.k = "Call" /\ node.body[1].iter.func = Name("range")
  /\ Len(node.body[1].iter.args) \in 1..3

\* the header the claim gives for loop variable v and range arguments a
LoopHeader(v, a) ==
  LET start == IF Len(a) = 1 THEN "0" ELSE TextOf(a[1])
      end == IF Len(a) = 1 THEN TextOf(a[1]) ELSE TextOf(a[2])
  IN "for (int " \o v \o " = " \o start \o "; " \o v \o " < " \o end \o "; "
     \o (IF Len(a) < 3 \/ TextOf(a[3]) = "1" THEN v \o "++"
         ELSE v \o " += " \o TextOf(a[3]))
     \o ") {"

\* C12: a loop `for v in range(...)` with 1 to 3 arguments is emitted with
\* the header `for (int v = <start>; v < <end>; v++) {` when the step is
\* omitted or its text is `1`, and with `v += <step>` in every other case;
\* start is `0` when only the end is given
C12_LoopHeader ==
  (Done /\ RangeLoop) =>
    /\ ~Failed(glsl)
    /\ glsl.lines[2]
         = "    " \o LoopHeader(node.body[1].target.id, node.body[1].iter.args)

C12_Witness ==
  /\ Done /\ RangeLoop
  /\ node.body[1].iter.args = <<IntC(0), IntC(4), IntC(2)>>
  /\ glsl.lines = <<"void shader() {", "    for (int i = 0; i < 4; i += 2) {",
                    "        int a = int(i);", "    }", "}">>

\* the function under translation holds one expression statement: an
\* expression of one operator
OperatorStmt ==
  /\ node.k = "FunctionDef" /\ node.name = "shader"
  /\ node.body[1].k = "Expr"
  /\ node.body[1].value.k \in {"UnaryOp", "BinOp", "BoolOp", "Compare"}

\* the operators of an expression
OperatorsOf(e) ==
  IF e.k = "Compare" THEN {e.ops[j] : j \in 1..Len(e.ops)} ELSE {e.op}

\* the operands of a boolean expression joined by the symbol
RECURSIVE JoinedBy(_, _)
JoinedBy(values, symbol) ==
  IF Len(values) = 1 THEN TextOf(values[1])
  ELSE TextOf(values[1]) \o " " \o symbol \o " "
       \o JoinedBy(Tail(values), symbol)

\* the text of an operator expression: the symbol of the table applied to
\* the texts of the operands
WithSymbol(e) ==
  CASE e.k = "UnaryOp" -> op_symbol(e.op) \o TextOf(e.operand)
    [] e.k = "BinOp" -> "(" \o TextOf(e.left) \o " " \o op_symbol(e.op) \o " "
                        \o TextOf(e.right) \o ")"
    [] e.k = "Compare" -> TextOf(e.left) \o " " \o op_symbol(e.ops[1]) \o " "
                          \o TextOf(e.comparators[1])
    [] e.k = "BoolOp" -> JoinedBy(e.values, op_symbol(e.op))

\* C17: an expression with one operator of the symbol table (a comparison
\* with one operator and one comparator) is translated without an error, to
\* the operands' texts with the table's symbol
C17_OperatorSymbol ==
  (Done /\ OperatorStmt) =>
    LET e == node.body[1].value
    IN (OperatorsOf(e) \subseteq OpTable /\ (e.k = "Compare" => Len(e.ops) = 1))
         => /\ ~Failed(glsl)
            /\ \E j \in 1..Len(glsl.lines) :
                 lstrip(glsl.lines[j]) = WithSymbol(e) \o ";"


\* the union of the sets f[1], ..., f[n]
UnionOf(f) == UNION {f[j] : j \in 1..Len(f)}

RECURSIVE ConstructsOf(_)
\* the constructs without a translation rule that a statement or expression
\* holds, each by the name the visitor's messages give it
ConstructsOf(n) ==
  CASE n.k = "With" -> {"'with' statements"}
    [] n.k = "Try" -> {"try/except blocks"}
    [] n.k = "Lambda" -> {"Lambda functions"}
    [] n.k = "ListComp" -> {"List comprehensions"}
    [] n.k = "DictComp" -> {"Dictionary comprehensions"}
    [] n.k = "SetComp" -> {"Set comprehensions"}
    [] n.k = "GeneratorExp" -> {"Generator expressions"}
    [] n.k = "Assign" ->
         IF n.value.k = "ListComp" THEN {} ELSE ConstructsOf(n.value)
    [] n.k \in {"Expr", "Return"} -> ConstructsOf(n.value)
    [] n.k = "Call" ->
         UnionOf([j \in 1..Len(n.args) |-> ConstructsOf(n.args[j])])
         \cup UnionOf([j \in 1..Len(n.keywords) |->
                         ConstructsOf(n.keywords[j].value)])
    [] n.k = "UnaryOp" ->
         (IF n.op \in OpTable THEN {} ELSE {n.op}) \cup ConstructsOf(n.operand)
    [] n.k = "BinOp" ->
         (IF n.op \in OpTable THEN {} ELSE {n.op})
         \cup ConstructsOf(n.left) \cup ConstructsOf(n.right)
    [] n.k = "Compare" -> {n.ops[j] : j \in 1..Len(n.ops)} \ OpTable
    [] n.k = "If" ->
         ConstructsOf(n.test)
         \cup UnionOf([j \in 1..Len(n.body) |-> ConstructsOf(n.body[j])])
         \cup UnionOf([j \in 1..Len(n.orelse) |-> ConstructsOf(n.orelse[j])])
    [] n.k = "For" ->
         (IF n.iter.k = "Call" /\ n.iter.func = Name("range") THEN {}
          ELSE {"range() for loops"})
         \cup UnionOf([j \in 1..Len(n.body) |-> ConstructsOf(n.body[j])])
    [] OTHER -> {}

\* the function under translation has one statement, which holds a
\* construct without translation rule
UnsupportedStmt ==
  /\ node.k = "FunctionDef" /\ node.name = "shader"
  /\ ConstructsOf(node.body[1]) # {}

\* C18: the translation of a function that holds a construct without
\* translation rule raises an error that names such a construct, and gives
\* no text
C18_UnsupportedRaises ==
  (Done /\ UnsupportedStmt) =>
    /\ Failed(glsl)
    /\ glsl.lines = <<>>
    /\ \E c \in ConstructsOf(node.body[1]) : ContainsStr(glsl.err, c)


(***************************************************************************)
(* Properties of compiling a stage, continued                              *)
(***************************************************************************)
RECURSIVE NumYields(_)
\* the yield statements of a body, those of nested blocks included
NumYields(body) ==
  IF Len(body) = 0 THEN 0
  ELSE LET s == body[1]
           here == CASE s.k = "Expr" /\ s.value.k = "Yield" -> 1
                     [] s.k = "If" -> NumYields(s.body) + NumYields(s.orelse)
                     [] s.k \in {"For", "While"} -> NumYields(s.body)
                     [] OTHER -> 0
       IN here + NumYields(Tail(body))

\* the lines of the text of stage i that call EmitVertex()
EmitCalls(i) ==
  Cardinality({j \in 1..Len(stages[i].out.lines) :
                 lstrip(stages[i].out.lines[j].s) = "EmitVertex();"})

\* stage i is a geometry stage whose compile() ended, on a body with a yield
GeometryYielded(i) ==
  /\ inputs.kind = "geometry"
  /\ stages[i].pc = "compiled"
  /\ NumYields(inputs.func.def.body) > 0

\* C13: a geometry stage whose body yields compiles to a text that holds one
\* EmitVertex() call for each yield statement of the body
C13_YieldEmitsVertex ==
  \A i \in 1..2 :
    GeometryYielded(i) =>
      /\ Returned(i)
      /\ EmitCalls(i) = NumYields(inputs.func.def.body)

RECURSIVE KeywordsReturned(_)
\* the keywords of the return statements of a body, in source order, those
\* of nested blocks included
KeywordsReturned(body) ==
  IF Len(body) = 0 THEN <<>>
  ELSE LET s == body[1]
           here == CASE s.k = "Return" /\ s.value.k = "Call" -> s.value.keywords
                     [] s.k = "If" -> KeywordsReturned(s.body)
                                      \o KeywordsReturned(s.orelse)
                     [] s.k \in {"For", "While"} -> KeywordsReturned(s.body)
                     [] OTHER -> <<>>
       IN here \o KeywordsReturned(Tail(body))

\* the keywords that name a field of the output block
FieldKeywords(body) ==
  SelectSeq(KeywordsReturned(body), LAMBDA kw : ~startswith(kw.arg, "gl_"))

\* the lines of the text of stage i that start with the given text, after
\* their indentation
LinesFrom(i, text) ==
  {j \in 1..Len(stages[i].out.lines) :
     startswith(lstrip(stages[i].out.lines[j].s), text)}

\* stage i is a tessellation-control stage with an output block whose
\* compile() returned a text
TcsReturned(i) ==
  /\ inputs.kind = "tess_control"
  /\ Returned(i)
  /\ inputs.func.ret # None

\* C14: the text of a tessellation-control stage assigns every field keyword
\* of its returns to <instance>[gl_InvocationID].<field>, one line for each,
\* never to <instance>.<field>, and closes the output block with <instance>[]
C14_IndexedOutput ==
  \A i \in 1..2 :
    TcsReturned(i) =>
      LET inst == instance_name(inputs.func.ret)
          kws == FieldKeywords(inputs.func.def.body)
      IN /\ \A n \in 1..Len(kws) :
              /\ LinesFrom(i, inst \o "[gl_InvocationID]." \o kws[n].arg \o " = ")
                   # {}
              /\ LinesFrom(i, inst \o "." \o kws[n].arg) = {}
         /\ Cardinality(LinesFrom(i, inst \o "[gl_InvocationID].")) = Len(kws)
         /\ LinesFrom(i, "} " \o inst \o "[];") # {}
         /\ LinesFrom(i, "} " \o inst \o ";") = {}

\* a tessellation-control stage returned a text for a body with an early
\* return in a branch: three field keywords in two returns
C14_Witness ==
  /\ TcsReturned(1)
  /\ Len(FieldKeywords(inputs.func.def.body)) = 3
  /\ \E j \in 1..Len(stages[1].out.lines) :
       stages[1].out.lines[j].s = "    tcs_out[gl_InvocationID].level = 2.0;"

\* s is an assignment `name = shared(T)` with one type argument
IsShared(s) ==
  /\ s.k = "Assign" /\ s.targets[1].k = "Name"
  /\ s.value.k = "Call" /\ s.value.func.k = "Name" /\ s.value.func.id = "shared"
  /\ Len(s.value.args) = 1

\* the top-level line that declares the shared variable of s
SharedLine(s) ==
  LET t == s.value.args[1]
  IN IF t.k = "Subscript"
     THEN "shared " \o TextOf(t.value) \o " " \o s.targets[1].id \o "["
          \o TextOf(t.slice) \o "];"
     ELSE "shared " \o TextOf(t) \o " " \o s.targets[1].id \o ";"

RECURSIVE SharedLines(_)
\* the declarations of the shared assignments of a body, in source order
SharedLines(body) ==
  IF Len(body) = 0 THEN <<>>
  ELSE LET s == body[1]
           here == CASE IsShared(s) -> <<SharedLine(s)>>
                     [] s.k = "If" -> SharedLines(s.body) \o SharedLines(s.orelse)
                     [] s.k \in {"For", "While"} -> SharedLines(s.body)
                     [] OTHER -> <<>>
       IN here \o SharedLines(Tail(body))

RECURSIVE WithoutShared(_)
\* a body with its shared assignments deleted, everything else in place
WithoutShared(body) ==
  IF Len(body) = 0 THEN <<>>
  ELSE LET s == body[1]
           here == CASE IsShared(s) -> <<>>
                     [] s.k = "If" ->
                          <<[s EXCEPT !.body = WithoutShared(@),
                                      !.orelse = WithoutShared(@)]>>
                     [] s.k \in {"For", "While"} ->
                          <<[s EXCEPT !.body = WithoutShared(@)]>>
                     [] OTHER -> <<s>>
       IN here \o WithoutShared(Tail(body))

\* a text from its `void main() {` line on
FromMain(text) ==
  LET m == CHOOSE j \in 1..Len(text) :
             /\ text[j] = "void main() {"
             /\ \A h \in 1..(j - 1) : text[h] # "void main() {"
  IN SubSeq(text, m, Len(text))

\* the text a compute stage gives for the inputs' function with the given
\* body in place of its own
ComputeText(body) ==
  Texts(compile(construct("compute",
                          [inputs.func EXCEPT !.def.body = body],
                          inputs.version, inputs.library).self,
                <<NoLocals>>).lines)

\* stage i is a compute stage whose compile() returned a text
ComputeReturned(i) == inputs.kind = "compute" /\ Returned(i)

\* C15: the text of a compute stage holds, before `void main() {` and in
\* source order, one `shared T name;` or `shared T name[n];` line for each
\* shared assignment of the body, and from `void main() {` on it is the text
\* of the same function without those assignments
C15_SharedHoisted ==
  \A i \in 1..2 :
    ComputeReturned(i) =>
      LET text == Texts(stages[i].out.lines)
          body == inputs.func.def.body
      IN /\ SelectSeq(text, LAMBDA l : startswith(l, "shared "))
              = SharedLines(body)
         /\ \A j \in 1..Len(text) :
              startswith(text[j], "shared ") =>
                \E m \in (j + 1)..Len(text) : text[m] = "void main() {"
         /\ FromMain(text) = FromMain(ComputeText(WithoutShared(body)))

\* a compute stage returned a text for a body with shared assignments in an
\* else branch, in a loop and at the end of the body
C15_Witness ==
  /\ ComputeReturned(1)
  /\ SharedLines(inputs.func.def.body)
       = <<"shared vec4 tile;", "shared int t2;", "shared vec4 t;",
           "shared float t3[4];">>
  /\ FromMain(Texts(stages[1].out.lines))
       = <<"void main() {", "    if (gl_LocalInvocationIndex == 0) {",
           "        b = 1;", "    }",
           "    for (int i = 0; i < 3; i++) {", "        int a = int(i);",
           "    }", "    m = mvp;", "}">>

\* the members of the output block of the inputs' entry function that are
\* no built-ins, when the block is an interface class
OutputMembers ==
  IF inputs.func.ret = None \/ inputs.func.ret.k # "class"
     \/ inputs.func.ret.base # "ShaderInterface"
  THEN <<>>
  ELSE SelectSeq(inputs.func.ret.body,
                 LAMBDA item : ~startswith(item.targets[1].id, "gl_"))

\* the lines of the text of stage i
TextLines(i) == {stages[i].out.lines[j].s : j \in 1..Len(stages[i].out.lines)}

\* the line that declares a member with the given qualifier, or without one
MemberLine(item, qualifier) ==
  "    " \o (IF qualifier = "" THEN "" ELSE qualifier \o " ")
  \o item.value.func.id \o " " \o item.targets[1].id \o ";"

\* C16: a member without positional argument is declared without qualifier,
\* one whose only argument is an interpolation qualifier is declared with
\* it, and a member with any other argument list makes compile() fail
C16_QualifierResolved ==
  \A i \in 1..2 :
    stages[i].pc = "compiled" =>
      \A n \in 1..Len(OutputMembers) :
        LET item == OutputMembers[n]
            args == item.value.args
        IN IF Len(args) = 0
           THEN Returned(i) =>
                  MemberLine(item, "") \in TextLines(i)
           ELSE IF Len(args) = 1 /\ args[1].k = "Name"
                   /\ args[1].id \in InterpolationQualifiers
           THEN Returned(i) =>
                  MemberLine(item, args[1].id) \in TextLines(i)
           ELSE ~Returned(i)

(***************************************************************************)
(* Properties of two compile() calls whose statements interleave           *)
(***************************************************************************)
\* what compile() gives for stage i when nothing else runs: a stage object
\* made from the same function, version and library, compiled in one go
Alone(i) ==
  compile(construct(inputs.entries[i].kind, inputs.entries[i].func,
                    inputs.version, stages[i].self.library).self,
          stages[i].callers)

\* C19: whatever the interleaving of the statements of the two calls, each
\* call raises the same exception or returns the same text as it does when
\* it runs alone
C19_SameAsAlone ==
  \A i \in 1..2 :
    stages[i].pc = "compiled" =>
      /\ stages[i].out.err = Alone(i).err
      /\ Texts(stages[i].out.lines) = Texts(Alone(i).lines)

\* the vertex and the fragment stage of one program, holding one library
\* list with a function in it, have both returned a text, and each call ran
\* statements while the other was under way
C19_Witness ==
  /\ inputs.entries = <<VertexEntry, FragmentEntry>>
  /\ inputs.library = <<ScaleFn>>
  /\ Returned(1) /\ Returned(2)
  /\ stages[1].overlap /\ stages[2].overlap
  /\ "float scale(float x) {" \in TextLines(1) \cap TextLines(2)

\* the statements that declare blocks, and those that rewrite the body
BlockSteps == {"inputs", "outputs"}

RewriteSteps == {"rewrite_return", "rename", "remove", "extract_shared"}

\* the places in what the call on stage i has run where a statement of the
\* first set comes before one of the second
Before(i, first, second) ==
  {pair \in (1..Len(stages[i].done)) \X (1..Len(stages[i].done)) :
     /\ pair[1] < pair[2]
     /\ stages[i].done[pair[1]] \in first
     /\ stages[i].done[pair[2]] \in second}

Unfiltered == node.body[1].value.generators[1].ifs = <<>>

\* the values the loop variable takes when
\* `for (int v = i; v < end; v += by)` runs, for a step above zero
RECURSIVE LoopIndices(_, _, _)
LoopIndices(i, end, by) ==
  IF i < end THEN <<i>> \o LoopIndices(i + by, end, by) ELSE <<>>

\* the lines emitted for the comprehension are the declaration of an array
\* of n slots, the loop header over the range, and the assignment to the
\* slot the loop variable names
CountedLoop(s, n) ==
  /\ \E ty \in {"int", "float"} :
       glsl.lines[2] = "    " \o ty \o " " \o s.targets[1].id \o "["
                       \o ToString(n) \o "];"
  /\ glsl.lines[3] = "    " \o LoopHeader(s.value.generators[1].target.id,
                                         s.value.generators[1].iter.args)
  /\ glsl.lines[4] = "        " \o s.targets[1].id \o "["
                     \o s.value.generators[1].target.id \o "] = "
                     \o TextOf(s.value.elt) \o ";"

\* C21: for a constant-bound comprehension without a filter and with a step
\* above zero, running the emitted loop writes each index 0..n-1 of the
\* declared array of n slots once, and no other index
C21_EverySlotOnce ==
  (Translated /\ ConstComp /\ Unfiltered /\ RangeOf(node.body[1]).step > 0) =>
    LET s == node.body[1]
        r == RangeOf(s)
        n == comp_size(s.value.generators[1].iter.args).v
        w == LoopIndices(r.start, r.end, r.step)
    IN /\ CountedLoop(s, n)
       /\ {w[j] : j \in 1..Len(w)} = 0..(n - 1)
       /\ \A j, k \in 1..Len(w) : w[j] = w[k] => j = k

\* the function under translation holds one statement: a literal
LiteralStmt ==
  /\ node.k = "FunctionDef" /\ node.name = "shader"
  /\ node.body[1].k = "Expr" /\ node.body[1].value.k = "Constant"

\* C30: a literal is translated to `true` or `false` for a boolean, to the
\* text of the value for a number, and to no line for a string and for None
C30_LiteralText ==
  (Done /\ LiteralStmt) =>
    /\ ~Failed(glsl)
    /\ glsl.lines =
         <<"void shader() {">>
         \o (CASE node.body[1].value.t = "bool" ->
                    <<IF node.body[1].value = BoolC(TRUE) THEN "    true;"
                      ELSE "    false;">>
               [] node.body[1].value.t \in {"int", "float"} ->
                    <<"    " \o node.body[1].value.s \o ";">>
               [] OTHER -> <<>>)
         \o <<"}">>

(***************************************************************************)
(* Properties of running the main a stage emitted                          *)
(***************************************************************************)
\* the vertex indices the functions are run with
VertexIDs == 0..2

\* the value of the test `gl_VertexID == n` for the given vertex index
Holds(test, id) == id = test.comparators[1].n

\* running the original function: the keywords of the first return it
\* reaches
RECURSIVE FirstReturn(_, _)
FirstReturnAfter(inner, rest, id) ==
  IF inner.found THEN inner ELSE FirstReturn(rest, id)

FirstReturn(body, id) ==
  IF Len(body) = 0 THEN [found |-> FALSE, keywords |-> <<>>]
  ELSE IF body[1].k = "Return"
  THEN [found |-> TRUE, keywords |-> body[1].value.keywords]
  ELSE IF body[1].k = "If"
  THEN FirstReturnAfter(FirstReturn(IF Holds(body[1].test, id)
                                    THEN body[1].body ELSE body[1].orelse, id),
                        Tail(body), id)
  ELSE FirstReturn(Tail(body), id)

\* the output an assignment of the rewritten body writes
FieldOf(target) == IF target.k = "Attribute" THEN target.attr ELSE target.id

\* running the body of the emitted main: the value each output is left with
RECURSIVE RunMain(_, _, _)
RunMain(body, id, outs) ==
  IF Len(body) = 0 \/ outs.returned THEN outs
  ELSE IF body[1].k = "Return"
  THEN [outs EXCEPT !.returned = TRUE]
  ELSE IF body[1].k = "NoDeclAssign"
  THEN RunMain(Tail(body), id,
               [outs EXCEPT !.fields = (FieldOf(body[1].targets[1])
                                          :> body[1].value) @@ @])
  ELSE IF body[1].k = "If"
  THEN RunMain(Tail(body), id,
               RunMain(IF Holds(body[1].test, id)
                       THEN body[1].body ELSE body[1].orelse, id, outs))
  ELSE RunMain(Tail(body), id, outs)

NothingWritten == [returned |-> FALSE, fields |-> <<>>]

\* every keyword of the return is the value its output was left with
LeftWith(keywords, fields) ==
  \A j \in 1..Len(keywords) :
    /\ keywords[j].arg \in DOMAIN fields
    /\ fields[keywords[j].arg] = keywords[j].value

C23_SameTextEveryCall ==
  \A k \in 1..Len(stages[1].results) :
    /\ stages[1].results[k].err = stages[1].results[1].err
    /\ Texts(stages[1].results[k].lines) = Texts(stages[1].results[1].lines)

(***************************************************************************)
(* Properties of the passes over the body                                  *)
(***************************************************************************)
\* the tree with the root taken off every attribute access rooted at one of
\* the names, wherever it stands
RECURSIVE Stripped(_, _)
Stripped(names, n) ==
  IF n.k = "Attribute" /\ n.value.k = "Name" /\ n.value.id \in names
  THEN Name(n.attr)
  ELSE MapChildren(n, LAMBDA c : Stripped(names, c))

\* C24: after compile() the body holds every attribute access rooted at a
\* parameter name without that root, wherever the access stands, and is
\* otherwise as it was written
C24_RootsRemoved ==
  \A i \in 1..2 :
    (inputs \in PrefixedInputs /\ stages[i].pc = "compiled") =>
      /\ Returned(i)
      /\ stages[i].out.root.body[1].body
           = Stripped({"u"}, inputs.func.def).body

\* the nodes of a tree that the translation writes: the tree and the nodes
\* below it; the keywords of a call are not written
RECURSIVE NodesOf(_)
NodesIn(nodes) == UNION {NodesOf(nodes[j]) : j \in 1..Len(nodes)}

NodesOf(n) ==
  {n} \cup
  CASE n.k = "Attribute" -> NodesOf(n.value)
    [] n.k = "Subscript" -> NodesOf(n.value) \cup NodesOf(n.slice)
    [] n.k = "Call" -> NodesOf(n.func) \cup NodesIn(n.args)
    [] n.k = "UnaryOp" -> NodesOf(n.operand)
    [] n.k = "BinOp" -> NodesOf(n.left) \cup NodesOf(n.right)
    [] n.k = "Compare" -> NodesOf(n.left) \cup NodesIn(n.comparators)
    [] n.k = "List" -> NodesIn(n.elts)
    [] n.k \in {"Assign", "NoDeclAssign"} ->
         NodesIn(n.targets) \cup NodesOf(n.value)
    [] n.k = "AugAssign" -> NodesOf(n.target) \cup NodesOf(n.value)
    [] n.k \in {"Return", "Expr"} ->
         IF n.value = None THEN {} ELSE NodesOf(n.value)
    [] n.k = "If" -> NodesOf(n.test) \cup NodesIn(n.body) \cup NodesIn(n.orelse)
    [] n.k = "For" -> NodesOf(n.target) \cup NodesOf(n.iter) \cup NodesIn(n.body)
    [] n.k = "While" -> NodesOf(n.test) \cup NodesIn(n.body)
    [] n.k = "FunctionDef" -> NodesIn(n.body)
    [] OTHER -> {}

\* the identifiers the translation of a tree writes: the names, and the
\* attribute names
IdentifiersOf(n) ==
  {x.id : x \in {y \in NodesOf(n) : y.k = "Name"}}
  \cup {x.attr : x \in {y \in NodesOf(n) : y.k = "Attribute"}}

\* C25: the main a stage returned writes no identifier that is a key of the
\* table of built-in renames
C25_NoLowercaseBuiltin ==
  \A i \in 1..2 :
    Returned(i) =>
      IdentifiersOf(stages[i].out.root.body[1])
        \cap DOMAIN GLSL_BUILTIN_RENAMES = {}

(***************************************************************************)
(* Properties of the references to interface members                       *)
(***************************************************************************)
\* the class a hint names: the element class of Sequence[...] and
\* Iterator[...], or the class itself
HintClass(type) == IF type.k = "generic" THEN type.elt ELSE type

\* the classes whose members are declared one by one, and those declared as
\* one block with an instance name
Individual(class) ==
  class.base \in {"UniformBlock", "AttributeBlock", "FragmentShaderOutputBlock"}

Aggregated(class) == class.base = "ShaderInterface"

MemberNames(class) == {class.body[j].targets[1].id : j \in 1..Len(class.body)}

\* the accesses `<name>.<member>` and `<name>[...].<member>` in a set of
\* nodes, for the given name and members
AccessesTo(name, members, nodes) ==
  {x \in {y \in nodes : y.k = "Attribute"} :
     /\ x.attr \in members
     /\ \/ x.value = Name(name)
        \/ x.value.k = "Subscript" /\ x.value.value = Name(name)}

\* a parameter's members are referenced as they are declared: the accesses
\* written in the function are gone and the bare members stand in the main
\* for a class declared member by member, and are all still there for a
\* block
ReferencedAsDeclared(name, class, written, emitted) ==
  \A x \in AccessesTo(name, MemberNames(class), written) :
    IF Individual(class) THEN x \notin emitted /\ Name(x.attr) \in emitted
    ELSE Aggregated(class) => x \in emitted

\* the target of a rewritten return has the form the output is declared in:
\* a built-in, a bare member, or a member of the declared instance
WrittenAsDeclared(target, kind, class) ==
  \/ target.k = "Name" /\ startswith(target.id, "gl_")
  \/ Individual(class) /\ target.k = "Name"
  \/ /\ Aggregated(class)
     /\ target.k = "Attribute"
     /\ target.value = IF kind = "tess_control"
                       THEN Subscript(Name(snake_case(class.name)),
                                      Name("gl_InvocationID"))
                       ELSE Name(snake_case(class.name))

\* C26: in the main a stage returned, the members of each parameter are
\* referenced in the form the parameter's class is declared in, and each
\* rewritten return assignment writes a built-in, a bare member of an output
\* declared member by member, or <instance>.<member> of the output block
C26_ReferencedAsDeclared ==
  \A i \in 1..2 :
    Returned(i) =>
      /\ \A p \in 1..Len(inputs.func.hints) :
           ReferencedAsDeclared(inputs.func.hints[p].name,
                                HintClass(inputs.func.hints[p].type),
                                NodesOf(inputs.func.def),
                                NodesOf(stages[i].out.root.body[1]))
      /\ \A s \in {y \in NodesOf(stages[i].out.root.body[1]) :
                     y.k = "NoDeclAssign"} :
           WrittenAsDeclared(s.targets[1], inputs.kind,
                             HintClass(inputs.func.ret))

(***************************************************************************)
(* Properties of the locations                                             *)
(***************************************************************************)
\* the text between `layout(location=` and the next `)` of a declaration
LocationText(line) ==
  LET from == Len("layout(location=") + 1
      close == CHOOSE j \in from..Len(line) :
                 /\ Char(line, j) = ")"
                 /\ \A h \in from..(j - 1) : Char(line, h) # ")"
  IN SubSeq(line, from, close - 1)

\* whether a located declaration declares an input or an output
Direction(line) == IF ContainsStr(line, " in ") THEN "in" ELSE "out"

\* C27: in the text a stage returned, no two located `in` declarations and
\* no two located `out` declarations carry the same location
C27_LocationsDistinct ==
  \A i \in 1..2 :
    Returned(i) =>
      \A j, k \in 1..Len(Located(i)) :
        (j # k /\ Direction(Located(i)[j]) = Direction(Located(i)[k])) =>
          LocationText(Located(i)[j]) # LocationText(Located(i)[k])

(***************************************************************************)
(* Properties of dedent                                                    *)
(***************************************************************************)
\* the number of whitespace characters a line starts with
RECURSIVE LeadingWhitespace(_)
LeadingWhitespace(line) ==
  IF Len(line) > 0 /\ Char(line, 1) \in Whitespace
  THEN 1 + LeadingWhitespace(SubSeq(line, 2, Len(line))) ELSE 0

\* every line without its first w characters
Unindented(lines, w) ==
  [i \in 1..Len(lines) |-> SubSeq(lines[i], w + 1, Len(lines[i]))]

Terminated(line) ==
  Len(line) > 0 /\ Char(line, Len(line)) \in {";", "{", "}"}

\* C29: every line of the accumulator that append_block added is four
\* spaces, the line as given, and a `;` exactly when the line as given does
\* not end with `;`, `{` or `}`, so it ends with one of the three; every
\* other line is as it was given, and no call changes a line that is there
C29_IndentedAndTerminated ==
  /\ Len(glsl.lines) = Len(inputs)
  /\ \A j \in 1..Len(inputs) :
       IF inputs[j].by = "append_block"
       THEN /\ glsl.lines[j] = "    " \o inputs[j].line
                               \o (IF Terminated(inputs[j].line) THEN "" ELSE ";")
            /\ Terminated(glsl.lines[j])
       ELSE glsl.lines[j] = inputs[j].line

\* an empty, an unterminated and a closing line were appended to an empty
\* accumulator
C29_Witness ==
  /\ inputs = <<Given("append_block", ""), Given("append_block", "a"),
                Given("append_block", "}")>>
  /\ glsl.lines = <<"    ;", "    a;", "    }">>

====
